---------------------------- MODULE Spec2Model ----------------------------
(***************************************************************************)
(* Model of the trading engine of src/core/engine.js: the risk model, the  *)
(* batch loop (TradingBacktest.backtest) and the live polling loop          *)
(* (TradingBacktest.forwardTest) with its shutdown handler and its         *)
(* periodic status timer; and the pure functions generateSignals and       *)
(* calcDynamicTrail applied to drawn inputs.                               *)
(*                                                                         *)
(* Numbers.  JavaScript doubles are modelled in fixed point:               *)
(*   prices, ATR and stops    in 1/100 of a price unit (ticks)             *)
(*   quantities               in 1/100 of a contract                       *)
(*   capital, pnl, fees       in 1/100 of a currency unit (cents)          *)
(*   so money = price * quantity \div 100.                                 *)
(* Fractional program constants are kept under their source names in the   *)
(* unit written next to them.  Ratios the code only compares or records    *)
(* (profit in ATR units, a trade's return) are exact rationals [num, den]  *)
(* with den >= 0; den = 0 gives the IEEE values +Infinity, -Infinity, NaN. *)
(***************************************************************************)
EXTENDS Integers, Sequences, FiniteSets, TLC

VARIABLES
    FORWARD_TEST,      \* config.FORWARD_TEST: live loop or batch run
    leverage,          \* this.leverage
    pc,                \* position of main() / backtest / the forwardTest loop
    capital, position, entryPrice, entryBar, entryTime,
    trailingStop, positionQty, liquidationPrice, maxProfitATR,
    trades,            \* the trade ledger
    equityCurve, regimeLog,
    i,                 \* backtest: loop index = number of candles consumed
    row,               \* backtest: data[i] of the bar last read
    latest,            \* forwardTest: data[data.length - 1] of the last usable fetch
    curAtr,            \* signal.atr of the bar last read
    lastClosedTime,    \* forwardTest: close time of the last consumed bar
    shutdownPending,   \* shutdown handlers suspended at their await
    exited,            \* "running", "exit0" (process.exit(0)), or the error
                       \* that ended the process
    rawLength,         \* forwardTest: rawData.length of the iteration under way,
                       \* null when rawData is null or no iteration has fetched
    call,              \* a function of the engine and the arguments it is given
    result             \* what the function returned

vars == << FORWARD_TEST, leverage, pc, capital, position, entryPrice, entryBar,
           entryTime, trailingStop, positionQty, liquidationPrice, maxProfitATR,
           trades, equityCurve, regimeLog, i, row, latest, curAtr,
           lastClosedTime, shutdownPending, exited, rawLength, call, result >>

(***************************************************************************)
(* Bounds of the model.                                                    *)
(***************************************************************************)
MaxBars == 3        \* candles of a backtest run
MaxTime == 2        \* bar times the live exchange goes through
MaxSignals == 2     \* shutdown handlers suspended at one time

(***************************************************************************)
(* Program constants (constructor of TradingBacktest).                     *)
(***************************************************************************)
initialCapital == 1000000             \* 10000.00, in cents
takerFee == 4                         \* 0.0004, in 1/10000
maintenanceMarginRate == 4            \* 0.004, in 1/1000
baseSlippage == 3                     \* 0.0003, in 1/10000
volatilitySlippageMultiplier == 2     \* 0.0002, in 1/10000
stopSlippageATRMultiplier == 3        \* 0.3, in 1/10
profitThresholdATR == 20              \* 0.2, in 1/100
initialStopATR == 120                 \* 1.2, in 1/100
profitTrailingATR == 40               \* 0.4, in 1/100
fundingRate == 1                      \* 0.0001, in 1/10000
MinCandles == 201                     \* rawData.length < 201 is a failed fetch
IntervalHours == 1                    \* config.INTERVAL: '1h' candles
WarmupBars == 200                     \* generateSignals: no signal for i < 200

profitTiers ==
    << [profitATR |-> 100, trailATR |-> 20],
       [profitATR |-> 200, trailATR |-> 50],
       [profitATR |-> 300, trailATR |-> 100] >>

regimeMultipliers ==
    [bull  |-> [initial |-> 100, profit |-> 120],
     bear  |-> [initial |-> 100, profit |-> 120],
     range |-> [initial |-> 100, profit |-> 80]]

(***************************************************************************)
(* Input domains.                                                          *)
(***************************************************************************)
NaN == -1                           \* the ATR of a warm-up bar (isNaN(curAtr))
Prices == {8000, 10000, 12000}      \* candle closes: 80.00, 100.00, 120.00
ATRs == {1000}                      \* defined ATR values: 10.00
ATRMeans == {0, 1000, 2000}         \* means of the trailing 50 ATR values
Leverages == {5}
Regimes ==
    { [bull |-> TRUE,  bear |-> FALSE, range |-> FALSE],
      [bull |-> FALSE, bear |-> TRUE,  range |-> FALSE],
      [bull |-> FALSE, bear |-> FALSE, range |-> TRUE] }
null == 0                           \* no time yet; bar times start at 1
noCall == [fn |-> "none"]           \* no function is being applied

(***************************************************************************)
(* IEEE ratios.                                                            *)
(***************************************************************************)
Sign(x) == IF x > 0 THEN 1 ELSE IF x < 0 THEN -1 ELSE 0

\* a / b for b >= 0, as JavaScript's division of doubles
Div(a, b) == IF b = 0 THEN [num |-> Sign(a), den |-> 0] ELSE [num |-> a, den |-> b]

Num(h) == [num |-> h, den |-> 100]      \* the constant h/100

isNaN(r) == r.den = 0 /\ r.num = 0

\* a < b on doubles: false when either side is NaN
LT(a, b) ==
    /\ ~isNaN(a) /\ ~isNaN(b)
    /\ IF a.den = 0 /\ b.den = 0 THEN a.num < b.num
       ELSE a.num * b.den < b.num * a.den

GT(a, b) == LT(b, a)

\* a >= b on doubles: false when either side is NaN
GE(a, b) == ~isNaN(a) /\ ~isNaN(b) /\ ~LT(a, b)

\* Math.max(a, b): NaN when either argument is NaN
MathMax(a, b) ==
    IF isNaN(a) \/ isNaN(b) THEN [num |-> 0, den |-> 0]
    ELSE IF LT(a, b) THEN b ELSE a

\* x.toFixed(2): the value rounded to hundredths, or the text of a non-number
toFixed2(r) ==
    IF isNaN(r) THEN [text |-> "NaN", hundredths |-> 0]
    ELSE IF r.den = 0
         THEN [text |-> IF r.num > 0 THEN "Infinity" ELSE "-Infinity", hundredths |-> 0]
         ELSE [text |-> "number",
               hundredths |-> IF r.num >= 0
                              THEN (200 * r.num + r.den) \div (2 * r.den)
                              ELSE -((200 * (-r.num) + r.den) \div (2 * r.den))]

Max(a, b) == IF a >= b THEN a ELSE b
Min(a, b) == IF a <= b THEN a ELSE b

(***************************************************************************)
(* Risk model.                                                             *)
(***************************************************************************)
\* the sides are swapped: a buy fills below the price, a sell above it
calcSlippageSwapped(price, side, atr) ==
    LET slip == (baseSlippage * price + volatilitySlippageMultiplier * atr) \div 10000
    IN  IF side = "buy" THEN price - slip ELSE price + slip

\* price * (1 +- (baseSlippage + atr / price * volatilitySlippageMultiplier)),
\* which is price +- (baseSlippage * price + volatilitySlippageMultiplier * atr)
calcSlippage(price, side, atr) ==
    LET slip == (baseSlippage * price + volatilitySlippageMultiplier * atr) \div 10000
    IN  IF side = "buy" THEN price + slip ELSE price - slip

\* the stop order fills at its trigger price
calcStopSlipNone(stopPrice, side, atr) == stopPrice

calcStopSlip(stopPrice, side, atr) ==
    LET slip == (atr * stopSlippageATRMultiplier) \div 10
    IN  IF side = "long" THEN Max(0, stopPrice - slip) ELSE stopPrice + slip

\* entryPrice * (1 -+ 1 / lev +- maintenanceMarginRate)
calcLiqPrice(entry, lev, side) ==
    IF side = "long"
    THEN (entry * (1000 * lev - 1000 + maintenanceMarginRate * lev)) \div (1000 * lev)
    ELSE (entry * (1000 * lev + 1000 - maintenanceMarginRate * lev)) \div (1000 * lev)

\* posVal * fundingRate * Math.floor(hoursHeld / 8); the time held is given in
\* quarter hours, so that Math.floor(hoursHeld / 8) is quartersHeld \div 32
calcFundingCost(posVal, quartersHeld) ==
    (posVal * fundingRate * (quartersHeld \div 32)) \div 10000

regType(regime) == IF regime.bull THEN "bull" ELSE IF regime.bear THEN "bear" ELSE "range"

\* the loop over profitTiers stops at the first tier reached
RECURSIVE tierTrailFirstWins(_, _, _)
tierTrailFirstWins(profitInATR, k, trailATR) ==
    IF k > Len(profitTiers) THEN trailATR
    ELSE IF GE(profitInATR, Num(profitTiers[k].profitATR))
         THEN profitTiers[k].trailATR
         ELSE tierTrailFirstWins(profitInATR, k + 1, trailATR)

\* the loop over profitTiers: every reached tier overwrites trailATR
RECURSIVE tierTrail(_, _, _)
tierTrail(profitInATR, k, trailATR) ==
    IF k > Len(profitTiers) THEN trailATR
    ELSE tierTrail(profitInATR, k + 1,
                   IF GE(profitInATR, Num(profitTiers[k].profitATR))
                   THEN profitTiers[k].trailATR ELSE trailATR)

\* a stop at no distance from the current price
calcDynamicTrailAtPrice(curPrice, entry, atr, pos, regime) == curPrice

\* the profit branch whatever the profit: the base trail of the tier table
calcDynamicTrailProfitOnly(curPrice, entry, atr, pos, regime) ==
    LET profitAmt == IF pos = 1 THEN curPrice - entry ELSE entry - curPrice
        mults == regimeMultipliers[regType(regime)]
        trailATR == tierTrail(Div(profitAmt, atr), 1, profitTrailingATR) * mults.profit
        stopDist == (trailATR * atr) \div 10000
    IN  IF pos = 1 THEN curPrice - stopDist ELSE curPrice + stopDist

calcDynamicTrail(curPrice, entry, atr, pos, regime) ==
    LET profitAmt == IF pos = 1 THEN curPrice - entry ELSE entry - curPrice
        profitInATR == Div(profitAmt, atr)
        mults == regimeMultipliers[regType(regime)]
    IN  IF LT(profitInATR, Num(profitThresholdATR))
        THEN LET stopDist == (initialStopATR * atr * mults.initial) \div 10000
             IN  IF pos = 1 THEN curPrice - stopDist ELSE curPrice + stopDist
        ELSE LET trailATR == tierTrail(profitInATR, 1, profitTrailingATR) * mults.profit
                 stopDist == (trailATR * atr) \div 10000
             IN  IF pos = 1 THEN curPrice - stopDist ELSE curPrice + stopDist

(***************************************************************************)
(* detectRegime on one bar i.  Its arguments are what the code reads for   *)
(* that bar: its close, the close lookback bars before, the mean of the    *)
(* closes i - lookback .. i and the mean of the window that ended 5 bars   *)
(* earlier.                                                                *)
(***************************************************************************)
Lookback == 50

\* every bar that is not a bull bar is a range bar
rangeFlagNotBull(bull, bear) == ~bull

\* range: !bull && !bear
rangeFlag(bull, bear) == ~bull /\ ~bear

detectRegime(b) ==
    IF b.idx < Lookback THEN [bull |-> FALSE, bear |-> FALSE, range |-> TRUE]
    ELSE LET priceChg == Div(b.close - b.back, b.back)
             smaSlope == IF b.idx >= Lookback + 5 THEN Div(b.sma - b.smaBefore, b.sma)
                         ELSE Div(0, 1)
             bull == GT(priceChg, Div(10, 100)) /\ GT(smaSlope, Div(1, 1000))
             bear == LT(priceChg, Div(-10, 100)) /\ LT(smaSlope, Div(-1, 1000))
         IN  [bull |-> bull, bear |-> bear, range |-> rangeFlag(bull, bear)]

\* half of the capital in every regime
getRegimeParamsHalf(isBull, isBear) == [positionSizePct |-> 5, minHoldBars |-> 3]

\* positionSizePct in 1/10
getRegimeParams(isBull, isBear) ==
    IF isBull THEN [positionSizePct |-> 5, minHoldBars |-> 3]
    ELSE IF isBear THEN [positionSizePct |-> 3, minHoldBars |-> 3]
    ELSE [positionSizePct |-> 4, minHoldBars |-> 3]

regimeName(regime) == IF regime.bull THEN "BULL" ELSE IF regime.bear THEN "BEAR" ELSE "RANGE"

\* an ATR of exactly 80% of the average passes
volatilityGateAtLeast(raw, atr, atrMA) == raw /\ 10 * atr >= 8 * atrMA

\* long = long && isVolatileEnough, with isVolatileEnough = atr[i] > atrMA * 0.8
volatilityGate(raw, atr, atrMA) == raw /\ 10 * atr > 8 * atrMA

direction(pos) == IF pos = 1 THEN "long" ELSE "short"

(***************************************************************************)
(* Signals.  generateSignals is an input of the loops here: the last       *)
(* element of its result is drawn from Signals, which keeps what its code  *)
(* fixes: a bar before the warm-up has no atr and no signal, and the       *)
(* volatility gate is applied to whatever the strategy rule yields.        *)
(***************************************************************************)
signalWarmup == [long |-> FALSE, short |-> FALSE, atr |-> NaN]

\* the bars generateSignals never evaluates
isWarmupNever(idx) == FALSE

\* line 151: if (i < 200) return { long: false, short: false }
isWarmup(idx) == idx < WarmupBars

signalAt(rawLong, rawShort, atr, atrMA, regime) ==
    [long |-> volatilityGate(rawLong, atr, atrMA),
     short |-> volatilityGate(rawShort, atr, atrMA),
     atr |-> atr, regime |-> regime]

Signals ==
    {signalWarmup} \cup
    { signalAt(rl, rs, atr, atrMA, regime) :
        rl \in BOOLEAN, rs \in BOOLEAN, atr \in ATRs, atrMA \in ATRMeans, regime \in Regimes }

(***************************************************************************)
(* generateSignals on one bar i.  Its arguments are what the code reads    *)
(* for that bar: the bar and the one before it, the lows and highs of the  *)
(* 20 bars before it, RSI, the EMAs of the bar before (the EMA of bar i    *)
(* follows by the recursion of Stats.ema), the regime, ATR and the mean    *)
(* of the 50 ATR values before.  RSI is in points, volume in units.        *)
(***************************************************************************)
StrategyModes == {"mean_reversion", "momentum", "pullback", "bear_market", "adaptive"}

\* Stats.ema: res[i] = data[i] * k + res[i - 1] * (1 - k) with k = 2 / (period + 1);
\* the value is given times (period + 1)
ema(x, prev, period) == 2 * x + (period - 1) * prev

\* x > ema and x < ema for an average given times (period + 1)
above(x, e, period) == x * (period + 1) > e
below(x, e, period) == x * (period + 1) < e

\* Math.max(...data.slice(i - 20, i).map(d => d.high)), and the same for the lows
recentHigh(b) == Max(b.olderHigh, b.prev.high)
recentLow(b) == Min(b.olderLow, b.prev.low)

\* an oversold bar with rising volume is bought whether or not it closed higher
bearMarketLongNoBounce(b) == b.rsi < 25 /\ 10 * b.volume > 12 * b.prevVolume

\* line 168: the oversold bounce of the bear_market mode
bearMarketLong(b) ==
    b.rsi < 25 /\ b.close > b.prev.close /\ 10 * b.volume > 12 * b.prevVolume

\* lines 158-181: the rule of the strategy mode, before the volatility gate
strategy(b) ==
    LET close == b.close
        rsi == b.rsi
        ema20 == ema(close, b.ema20Prev, 20)
        ema50 == ema(close, b.ema50Prev, 50)
        ema200 == ema(close, b.ema200Prev, 200)
        aboveEma200 == above(close, ema200, 200)
        belowEma200 == below(close, ema200, 200)
        ema20OverEma50 == ema20 * 51 > ema50 * 21
        ema20UnderEma50 == ema20 * 51 < ema50 * 21
    IN  CASE b.strategyMode = "mean_reversion" ->
               [long |-> rsi < 30 /\ aboveEma200,
                short |-> rsi > 70 /\ belowEma200]
          [] b.strategyMode = "momentum" ->
               [long |-> close > recentHigh(b) /\ rsi > 50 /\ aboveEma200 /\ ema20OverEma50,
                short |-> close < recentLow(b) /\ rsi < 50 /\ belowEma200 /\ ema20UnderEma50]
          [] b.strategyMode = "pullback" ->
               [long |-> aboveEma200 /\ below(close, ema20, 20)
                         /\ rsi > 40 /\ rsi < 60 /\ rsi > b.rsiPrev,
                short |-> belowEma200 /\ above(close, ema20, 20)
                          /\ rsi > 40 /\ rsi < 60 /\ rsi < b.rsiPrev]
          [] b.strategyMode = "bear_market" ->
               [long |-> bearMarketLong(b),
                short |-> \/ rsi > 60 /\ belowEma200 /\ ema20UnderEma50
                          \/ below(close, ema20, 20) /\ b.prev.close > b.ema20Prev
                             /\ belowEma200
                          \/ close < recentLow(b) /\ belowEma200]
          [] OTHER ->
               LET bullLong == b.regime.bull /\ aboveEma200 /\ below(close, ema20, 20)
                               /\ rsi > 40 /\ rsi < 60 /\ rsi > b.rsiPrev
                   bearShort == b.regime.bear /\ rsi > 60 /\ belowEma200 /\ ema20UnderEma50
                   bearLong == b.regime.bear /\ rsi < 25 /\ close > b.prev.close
                   rangeLong == b.regime.range /\ rsi < 30
                   rangeShort == b.regime.range /\ rsi > 70
               IN  [long |-> bullLong \/ bearLong \/ rangeLong,
                    short |-> bearShort \/ rangeShort]

\* lines 150-192 for one bar: the rule's result and the signal after the gate
generateSignals(b) ==
    IF isWarmup(b.idx)
    THEN [fn |-> "generateSignals", raw |-> [long |-> FALSE, short |-> FALSE],
          signal |-> signalWarmup]
    ELSE [fn |-> "generateSignals", raw |-> strategy(b),
          signal |-> signalAt(strategy(b).long, strategy(b).short, b.atr, b.atrMA, b.regime)]

(***************************************************************************)
(* The indicators on an array of candles.  Candle k of data (from 0) is    *)
(* data[k + 1].  ATR and the EMAs are rounded down to a tick; RSI is       *)
(* exact: 100 - 100 / (1 + avgG / avgL) is 100 * gains / (gains + losses). *)
(***************************************************************************)
RECURSIVE SumSeq(_)
SumSeq(s) == IF s = << >> THEN 0 ELSE Head(s) + SumSeq(Tail(s))

\* Math.max(tr1, tr2, tr3) of calcATR
trueRange(data, j) ==
    LET d == data[j + 1]
        abs(x) == IF x >= data[j].close THEN x - data[j].close ELSE data[j].close - x
    IN  Max(d.high - d.low,
            IF j > 0 THEN Max(abs(d.high), abs(d.low))
            ELSE 0)

calcATR(data, idx) ==
    IF idx >= 14 THEN SumSeq([n \in 1 .. 14 |-> trueRange(data, idx - 14 + n)]) \div 14
    ELSE NaN

\* without the branch for avgL === 0: avgG / avgL is Infinity when only avgL
\* is 0, which still gives 100, and NaN when both are 0
calcRSIUnguarded(data, idx) ==
    LET chg(n) == data[idx - 14 + n + 1].close - data[idx - 14 + n].close
        gains == SumSeq([n \in 1 .. 14 |-> Max(chg(n), 0)])
        losses == SumSeq([n \in 1 .. 14 |-> Max(-chg(n), 0)])
    IN  IF idx < 14 \/ (gains = 0 /\ losses = 0) THEN Div(0, 0)
        ELSE Div(100 * gains, gains + losses)

calcRSI(data, idx) ==
    LET chg(n) == data[idx - 14 + n + 1].close - data[idx - 14 + n].close
        gains == SumSeq([n \in 1 .. 14 |-> Max(chg(n), 0)])
        losses == SumSeq([n \in 1 .. 14 |-> Max(-chg(n), 0)])
    IN  IF idx < 14 THEN Div(0, 0)
        ELSE IF losses = 0 THEN Div(100, 1)
        ELSE Div(100 * gains, gains + losses)

\* the loop of Stats.ema over bars lo .. hi from the value acc of bar lo - 1;
\* the range is folded by halves, each half evaluated before the next starts
RECURSIVE emaOver(_, _, _, _, _)
emaOver(data, lo, hi, period, acc) ==
    IF lo > hi THEN acc
    ELSE IF lo = hi THEN ema(data[lo + 1].close, acc, period) \div (period + 1)
    ELSE LET mid == (lo + hi) \div 2
             half == emaOver(data, lo, mid, period, acc)
         IN  IF half = half THEN emaOver(data, mid + 1, hi, period, half) ELSE half

\* res[0] = arr[0]; res[i] = arr[i] * k + res[i - 1] * (1 - k), in ticks
calcEMA(data, idx, period) == emaOver(data, 1, idx, period, data[1].close)

\* the bars a window past the end of bar idx reads: slice(idx - 19, idx + 2)
recentWindowAhead(idx, len) == Max(0, idx - 19) .. Min(idx + 1, len - 1)

\* the bars recentHigh and recentLow read: slice(Math.max(0, i - 20), i)
recentWindow(idx, len) == Max(0, idx - 20) .. (idx - 1)

\* everything lines 143-191 read or return for bar idx >= 200
indicatorsAt(data, idx) ==
    LET W == recentWindow(idx, Len(data))
    IN  [close |-> data[idx + 1].close, volume |-> data[idx + 1].volume,
         prev |-> data[idx],
         recentHigh |-> CHOOSE h \in { data[k + 1].high : k \in W } :
                            \A k \in W : data[k + 1].high <= h,
         recentLow |-> CHOOSE l \in { data[k + 1].low : k \in W } :
                           \A k \in W : data[k + 1].low >= l,
         rsi |-> calcRSI(data, idx), rsiPrev |-> calcRSI(data, idx - 1),
         ema20 |-> calcEMA(data, idx, 20), ema20Prev |-> calcEMA(data, idx - 1, 20),
         ema50 |-> calcEMA(data, idx, 50), ema200 |-> calcEMA(data, idx, 200),
         regime |-> detectRegime(
             [idx |-> idx, close |-> data[idx + 1].close,
              back |-> data[idx - Lookback + 1].close,
              sma |-> SumSeq([n \in 1 .. Lookback + 1 |-> data[idx - Lookback + n].close]),
              smaBefore |-> SumSeq([n \in 1 .. Lookback + 1 |->
                                      data[idx - Lookback - 5 + n].close])]),
         atr |-> calcATR(data, idx),
         atrMA |-> SumSeq([n \in 1 .. 50 |-> calcATR(data, idx - 51 + n)]) \div 50]

(***************************************************************************)
(* The locals both loops declare, as one record.                           *)
(***************************************************************************)
Locals ==
    [capital |-> capital, position |-> position, entryPrice |-> entryPrice,
     entryBar |-> entryBar, entryTime |-> entryTime, trailingStop |-> trailingStop,
     positionQty |-> positionQty, liquidationPrice |-> liquidationPrice,
     maxProfitATR |-> maxProfitATR, trades |-> trades]

SetLocals(s) ==
    /\ capital' = s.capital
    /\ position' = s.position
    /\ entryPrice' = s.entryPrice
    /\ entryBar' = s.entryBar
    /\ entryTime' = s.entryTime
    /\ trailingStop' = s.trailingStop
    /\ positionQty' = s.positionQty
    /\ liquidationPrice' = s.liquidationPrice
    /\ maxProfitATR' = s.maxProfitATR
    /\ trades' = s.trades

\* the liquidation check with the short side left out
liquidationHitLongOnly(pos, curPrice, liqPrice) == pos = 1 /\ curPrice <= liqPrice

\* position !== 0 && ((position === 1 && curPrice <= liquidationPrice) ||
\*                    (position === -1 && curPrice >= liquidationPrice))
liquidationHit(pos, curPrice, liqPrice) ==
    pos # 0 /\ ((pos = 1 /\ curPrice <= liqPrice) \/ (pos = -1 /\ curPrice >= liqPrice))

\* the whole notional instead of the margin
marginLostNotional(entry, qty) == (entry * qty * leverage) \div 100

\* const marginLost = entryPrice * positionQty
marginLost(entry, qty) == (entry * qty) \div 100

\* (exitPrice - entryPrice) * positionQty * leverage, mirrored for a short
grossPnl(pos, entry, exitPrice, qty) ==
    IF pos = 1 THEN ((exitPrice - entry) * qty * leverage) \div 100
    ELSE ((entry - exitPrice) * qty * leverage) \div 100

\* exitPrice * positionQty * leverage
notional(exitPrice, qty) == (exitPrice * qty * leverage) \div 100

\* exitPrice * positionQty * leverage * takerFee
exitFee(exitPrice, qty) == (notional(exitPrice, qty) * takerFee) \div 10000

\* position === 1 ? curPrice <= trailingStop : curPrice >= trailingStop
stopHit(pos, curPrice, stop) == IF pos = 1 THEN curPrice <= stop ELSE curPrice >= stop

\* profitInATR > this.profitThresholdATR ? 'profit_protection' : 'initial_stop'
exitReasonOf(profitInATR) ==
    IF GT(profitInATR, Num(profitThresholdATR)) THEN "profit_protection" ELSE "initial_stop"

\* the entry fee taken from the capital when the position is opened
enterFeeCharged(s, curPrice, signal, params, bar, time) ==
    LET tradeCapital == (s.capital * params.positionSizePct) \div 10
        entry == calcSlippage(curPrice, IF signal.long THEN "buy" ELSE "sell", signal.atr)
        entryFee == (tradeCapital * leverage * takerFee) \div 10000
        pos == IF signal.long THEN 1 ELSE -1
    IN  [s EXCEPT !.capital = s.capital - entryFee,
                  !.entryPrice = entry,
                  !.positionQty = ((tradeCapital - entryFee) * 100) \div entry,
                  !.entryBar = bar,
                  !.entryTime = time,
                  !.position = pos,
                  !.maxProfitATR = Num(0),
                  !.trailingStop = calcDynamicTrail(entry, entry, signal.atr, pos, signal.regime),
                  !.liquidationPrice =
                      calcLiqPrice(entry, leverage, IF signal.long THEN "long" ELSE "short")]

\* the entry block of both loops, on the locals s
enter(s, curPrice, signal, params, bar, time) ==
    LET tradeCapital == (s.capital * params.positionSizePct) \div 10
        entry == calcSlippage(curPrice, IF signal.long THEN "buy" ELSE "sell", signal.atr)
        entryFee == (tradeCapital * leverage * takerFee) \div 10000
        pos == IF signal.long THEN 1 ELSE -1
    IN  [s EXCEPT !.entryPrice = entry,
                  !.positionQty = ((tradeCapital - entryFee) * 100) \div entry,
                  !.entryBar = bar,
                  !.entryTime = time,
                  !.position = pos,
                  !.maxProfitATR = Num(0),
                  !.trailingStop = calcDynamicTrail(entry, entry, signal.atr, pos, signal.regime),
                  !.liquidationPrice =
                      calcLiqPrice(entry, leverage, IF signal.long THEN "long" ELSE "short")]

(***************************************************************************)
(* backtest.  Candle k of data has timestamp k; barsHeld * 0.25 hours is   *)
(* barsHeld quarter hours.                                                 *)
(***************************************************************************)
\* the liquidation block, lines 220-232
btLiquidate(s, r, idx, regime) ==
    LET lost == marginLost(s.entryPrice, s.positionQty)
    IN  [s EXCEPT !.capital = s.capital - lost,
                  !.trades = Append(s.trades,
                      [entryTime |-> s.entryBar, exitTime |-> r.timestamp,
                       direction |-> direction(s.position), entryPrice |-> s.entryPrice,
                       exitPrice |-> s.liquidationPrice, barsHeld |-> idx - s.entryBar,
                       pnl |-> -lost, return |-> [num |-> -1, den |-> 1],
                       exitReason |-> "liquidation", regime |-> regime,
                       maxProfitATR |-> toFixed2(s.maxProfitATR)]),
                  !.position = 0]

\* the stop always follows the newly computed one
btUpdateTrailLoosens(pos, stop, newTrail) == newTrail

\* lines 245-246: the stop only moves in the favourable direction
btUpdateTrail(pos, stop, newTrail) ==
    IF pos = 1 THEN Max(stop, newTrail) ELSE Min(stop, newTrail)

\* the block that manages an open position, lines 236-270
btManage(s, r, signal, idx, regime) ==
    LET curPrice == r.close
        atr == signal.atr
        barsHeld == idx - s.entryBar
        profitAmt == IF s.position = 1 THEN curPrice - s.entryPrice
                     ELSE s.entryPrice - curPrice
        profitInATR == Div(profitAmt, atr)
        maxP == MathMax(s.maxProfitATR, profitInATR)
        newTrail == calcDynamicTrail(curPrice, s.entryPrice, atr, s.position, signal.regime)
        stop == btUpdateTrail(s.position, s.trailingStop, newTrail)
        exitPrice == calcStopSlip(stop, direction(s.position), atr)
        pnl == grossPnl(s.position, s.entryPrice, exitPrice, s.positionQty)
        fundingCost == calcFundingCost(notional(exitPrice, s.positionQty), barsHeld)
        netPnl == pnl - exitFee(exitPrice, s.positionQty) - fundingCost
    IN  IF stopHit(s.position, curPrice, stop)
        THEN [s EXCEPT !.capital = s.capital + netPnl,
                       !.trailingStop = stop,
                       !.trades = Append(s.trades,
                           [entryTime |-> s.entryBar, exitTime |-> r.timestamp,
                            direction |-> direction(s.position),
                            entryPrice |-> s.entryPrice, exitPrice |-> exitPrice,
                            barsHeld |-> barsHeld, pnl |-> netPnl,
                            return |-> Div(netPnl, marginLost(s.entryPrice, s.positionQty)),
                            exitReason |-> exitReasonOf(profitInATR), regime |-> regime,
                            fundingCost |-> fundingCost,
                            slippage |-> IF stop >= exitPrice THEN stop - exitPrice
                                         ELSE exitPrice - stop,
                            maxProfitATR |-> toFixed2(maxP)]),
                       !.position = 0,
                       !.maxProfitATR = Num(0)]
        ELSE [s EXCEPT !.maxProfitATR = maxP, !.trailingStop = stop]

\* lines 213-215 and 235-285: the sizing of the bar, the open position
\* managed, then a new one entered when flat
btBarSized(s, r, signal, idx, useRegimeParams) ==
    LET params == IF useRegimeParams
                  THEN getRegimeParams(signal.regime.bull, signal.regime.bear)
                  ELSE [positionSizePct |-> 5, minHoldBars |-> 3]
        managed == IF s.position # 0
                   THEN btManage(s, r, signal, idx, regimeName(signal.regime))
                   ELSE s
    IN  IF managed.position = 0 /\ managed.capital > 0 /\ (signal.long \/ signal.short)
        THEN enter(managed, r.close, signal, params, idx, s.entryTime)
        ELSE managed

\* backtest(data, strategyMode): useRegimeParams = true, also what
\* compareStrats passes
btBar(s, r, signal, idx) == btBarSized(s, r, signal, idx, TRUE)

\* the position still open at the end of data is not recorded
btCloseRemainingSkipped(s, r, len, lastRegime) == s

\* the block that closes the remaining position after the loop, lines 290-308
btCloseRemaining(s, r, len, lastRegime) ==
    LET exitPrice == r.close
        pnl == grossPnl(s.position, s.entryPrice, exitPrice, s.positionQty)
        fundingCost == calcFundingCost(notional(exitPrice, s.positionQty), len - s.entryBar)
        netPnl == pnl - exitFee(exitPrice, s.positionQty) - fundingCost
    IN  [s EXCEPT !.capital = s.capital + netPnl,
                  !.trades = Append(s.trades,
                      [entryTime |-> s.entryBar, exitTime |-> r.timestamp,
                       direction |-> direction(s.position),
                       entryPrice |-> s.entryPrice, exitPrice |-> exitPrice,
                       barsHeld |-> len - s.entryBar, pnl |-> netPnl,
                       return |-> Div(netPnl, marginLost(s.entryPrice, s.positionQty)),
                       exitReason |-> "end_of_data", regime |-> lastRegime,
                       fundingCost |-> fundingCost,
                       maxProfitATR |-> toFixed2(s.maxProfitATR)])]

(***************************************************************************)
(* forwardTest.  Times are in candle intervals of one hour                 *)
(* (config.INTERVAL), so hoursHeld is a difference of times and has        *)
(* 4 quarter hours per unit.  A fetch result keeps the length of the       *)
(* array and its last two candles: the last closed bar and the bar still   *)
(* forming.                                                                *)
(***************************************************************************)
candle(t, close, closed) ==
    [timestamp |-> t, close |-> close, closeTime |-> t + 1, isClosed |-> closed]

noCandle == [timestamp |-> null, close |-> 0, closeTime |-> null, isClosed |-> FALSE]

\* what getLatestCandles resolves to when the request succeeds
fetched(len, t, close, formingClose) ==
    [length |-> len, tail |-> << candle(t, close, TRUE), candle(t + 1, formingClose, FALSE) >>]

\* what getLatestCandles resolves to when the request fails (its catch)
nullData == [length |-> null, tail |-> << >>]

\* only a failed request counts as a failed fetch
fetchFailedNullOnly(rawData) == rawData = nullData

\* line 405: !rawData || rawData.length < 201
fetchFailed(rawData) == rawData = nullData \/ rawData.length < MinCandles

\* rawData.slice(0, -1)
sliceLast(rawData) ==
    [length |-> rawData.length - 1,
     tail |-> SubSeq(rawData.tail, 1, Len(rawData.tail) - 1)]

\* data[data.length - 1]
lastOf(data) == data.tail[Len(data.tail)]

\* the bar last consumed is not recognised
alreadyConsumedStrict(last, closeTime) == last # null /\ closeTime < last

\* lastClosedTime && latest.closeTime <= lastClosedTime
alreadyConsumed(last, closeTime) == last # null /\ closeTime <= last

\* the liquidation block, lines 432-443
fwLiquidate(s, curTime, regime) ==
    LET lost == marginLost(s.entryPrice, s.positionQty)
    IN  [s EXCEPT !.capital = s.capital - lost,
                  !.trades = Append(s.trades,
                      [entryTime |-> s.entryTime, exitTime |-> curTime,
                       direction |-> direction(s.position), entryPrice |-> s.entryPrice,
                       exitPrice |-> s.liquidationPrice,
                       pnl |-> -lost, return |-> [num |-> -1, den |-> 1],
                       exitReason |-> "liquidation", regime |-> regime,
                       maxProfitATR |-> toFixed2(s.maxProfitATR)]),
                  !.position = 0]

\* lines 454-464: a new stop replaces the old one only when it is tighter
fwUpdateTrail(pos, stop, newTrail) ==
    IF pos = 1 THEN (IF newTrail > stop THEN newTrail ELSE stop)
    ELSE (IF newTrail < stop THEN newTrail ELSE stop)

\* the block that manages an open position, lines 447-506
fwManage(s, cur, signal, regime) ==
    LET curPrice == cur.close
        curTime == cur.timestamp
        atr == signal.atr
        quartersHeld == 4 * (curTime - s.entryTime)
        profitAmt == IF s.position = 1 THEN curPrice - s.entryPrice
                     ELSE s.entryPrice - curPrice
        profitInATR == Div(profitAmt, atr)
        maxP == MathMax(s.maxProfitATR, profitInATR)
        newTrail == calcDynamicTrail(curPrice, s.entryPrice, atr, s.position, signal.regime)
        stop == fwUpdateTrail(s.position, s.trailingStop, newTrail)
        exitPrice == calcStopSlip(stop, direction(s.position), atr)
        pnl == grossPnl(s.position, s.entryPrice, exitPrice, s.positionQty)
        totalFunding == calcFundingCost(notional(exitPrice, s.positionQty), quartersHeld)
        finalPnl == pnl - exitFee(exitPrice, s.positionQty) - totalFunding
    IN  IF stopHit(s.position, curPrice, stop)
        THEN [s EXCEPT !.capital = s.capital + finalPnl,
                       !.trailingStop = stop,
                       !.trades = Append(s.trades,
                           [entryTime |-> s.entryTime, exitTime |-> curTime,
                            direction |-> direction(s.position),
                            entryPrice |-> s.entryPrice, exitPrice |-> exitPrice,
                            pnl |-> finalPnl,
                            return |-> Div(finalPnl, marginLost(s.entryPrice, s.positionQty)),
                            exitReason |-> exitReasonOf(profitInATR), regime |-> regime,
                            fundingCost |-> totalFunding,
                            slippage |-> IF stop >= exitPrice THEN stop - exitPrice
                                         ELSE exitPrice - stop,
                            maxProfitATR |-> toFixed2(maxP)]),
                       !.position = 0,
                       !.maxProfitATR = Num(0)]
        ELSE [s EXCEPT !.maxProfitATR = maxP, !.trailingStop = stop]

\* lines 446-527: manage the open position, or else enter a new one
fwBar(s, cur, signal) ==
    LET params == getRegimeParams(signal.regime.bull, signal.regime.bear)
    IN  IF s.position # 0
        THEN fwManage(s, cur, signal, regimeName(signal.regime))
        ELSE IF s.position = 0 /\ s.capital > 0 /\ (signal.long \/ signal.short)
             THEN enter(s, cur.close, signal, params, s.entryBar, cur.timestamp)
             ELSE s

\* the forced close of the shutdown handler after its await, lines 332-346;
\* closed is data.slice(0, -1)[data.length - 2], now is Date.now()
shutdownClose(s, closed, now) ==
    LET exitPrice == closed.close
        pnl == grossPnl(s.position, s.entryPrice, exitPrice, s.positionQty)
        fundingCost == calcFundingCost(notional(exitPrice, s.positionQty),
                                       4 * (now - s.entryTime))
        netPnl == pnl - exitFee(exitPrice, s.positionQty) - fundingCost
    IN  [s EXCEPT !.capital = s.capital + netPnl,
                  !.trades = Append(s.trades,
                      [entryTime |-> s.entryTime, exitTime |-> closed.timestamp,
                       direction |-> direction(s.position),
                       entryPrice |-> s.entryPrice, exitPrice |-> exitPrice,
                       pnl |-> netPnl,
                       return |-> Div(netPnl, marginLost(s.entryPrice, s.positionQty)),
                       exitReason |-> "manual_shutdown", regime |-> "UNKNOWN",
                       fundingCost |-> fundingCost,
                       maxProfitATR |-> toFixed2(s.maxProfitATR)])]

(***************************************************************************)
(* Initial state: main() has read the configuration and entered backtest   *)
(* or forwardTest, whose locals have their declared values.                *)
(***************************************************************************)
EngineInit ==
    /\ FORWARD_TEST \in BOOLEAN
    /\ leverage \in Leverages
    /\ pc = IF FORWARD_TEST THEN "fetch" ELSE "loop"
    /\ capital = initialCapital
    /\ position = 0
    /\ entryPrice = 0
    /\ entryBar = 0
    /\ entryTime = null
    /\ trailingStop = 0
    /\ positionQty = 0
    /\ liquidationPrice = 0
    /\ maxProfitATR = Num(0)
    /\ trades = << >>
    /\ equityCurve = << >>
    /\ regimeLog = << >>
    /\ i = 0
    /\ row = noCandle
    /\ latest = noCandle
    /\ curAtr = NaN
    /\ lastClosedTime = null
    /\ shutdownPending = 0
    /\ exited = "running"
    /\ rawLength = null

Init == EngineInit /\ call = noCall /\ result = noCall

engineVars == << FORWARD_TEST, leverage, pc, capital, position, entryPrice, entryBar,
                 entryTime, trailingStop, positionQty, liquidationPrice, maxProfitATR,
                 trades, equityCurve, regimeLog, i, row, latest, curAtr,
                 lastClosedTime, shutdownPending, exited, rawLength >>

fwOnly == << latest, lastClosedTime, shutdownPending, exited, rawLength >>
btOnly == << equityCurve, regimeLog, i, row >>
pureOnly == << call, result >>

(***************************************************************************)
(* backtest: one action per way through the body of the loop.  The length  *)
(* of data is the index at which BtReturn ends the loop.                   *)
(***************************************************************************)
InLoop == ~FORWARD_TEST /\ pc = "loop" /\ i < WarmupBars + MaxBars

\* line 211: a bar whose ATR is undefined only appends the capital: a bar
\* before the warm-up, or a bar whose indicators are NaN.  The latter come
\* before every bar with a defined ATR.
BtWarmupBar(close) ==
    /\ InLoop
    /\ isWarmup(i) \/ regimeLog = << >>
    /\ row' = candle(i, close, TRUE)
    /\ curAtr' = signalWarmup.atr
    /\ equityCurve' = Append(equityCurve, capital)
    /\ i' = i + 1
    /\ UNCHANGED << FORWARD_TEST, leverage, pc, capital, position, entryPrice, entryBar,
                    entryTime, trailingStop, positionQty, liquidationPrice, maxProfitATR,
                    trades, regimeLog >>
    /\ UNCHANGED fwOnly
    /\ UNCHANGED pureOnly

\* lines 219-233: the liquidation exit ends the iteration with continue
BtLiquidationBar(close, signal) ==
    /\ InLoop
    /\ ~isWarmup(i)
    /\ signal.atr # NaN
    /\ liquidationHit(position, close, liquidationPrice)
    /\ row' = candle(i, close, TRUE)
    /\ curAtr' = signal.atr
    /\ regimeLog' = Append(regimeLog, regimeName(signal.regime))
    /\ SetLocals(btLiquidate(Locals, candle(i, close, TRUE), i, regimeName(signal.regime)))
    /\ i' = i + 1
    /\ UNCHANGED << FORWARD_TEST, leverage, pc, equityCurve >>
    /\ UNCHANGED fwOnly
    /\ UNCHANGED pureOnly

\* lines 235-286: manage the open position, enter a new one, append the capital
BtBar(close, signal) ==
    /\ InLoop
    /\ ~isWarmup(i)
    /\ signal.atr # NaN
    /\ ~liquidationHit(position, close, liquidationPrice)
    /\ LET r == candle(i, close, TRUE)
           entered == btBar(Locals, r, signal, i)
       IN  /\ row' = r
           /\ SetLocals(entered)
           /\ equityCurve' = Append(equityCurve, entered.capital)
    /\ curAtr' = signal.atr
    /\ regimeLog' = Append(regimeLog, regimeName(signal.regime))
    /\ i' = i + 1
    /\ UNCHANGED << FORWARD_TEST, leverage, pc >>
    /\ UNCHANGED fwOnly
    /\ UNCHANGED pureOnly

\* lines 289-310: i has reached data.length
BtReturn ==
    /\ ~FORWARD_TEST /\ pc = "loop"
    /\ pc' = "returned"
    /\ IF position # 0
       THEN SetLocals(btCloseRemaining(Locals, row, i, regimeLog[Len(regimeLog)]))
       ELSE SetLocals(Locals)
    /\ UNCHANGED << FORWARD_TEST, leverage, curAtr >>
    /\ UNCHANGED btOnly
    /\ UNCHANGED fwOnly
    /\ UNCHANGED pureOnly

(***************************************************************************)
(* forwardTest: the main loop.  JavaScript runs each continuation to its   *)
(* next await, so an action is the code from the resolution of the fetch   *)
(* to the next await of the loop.                                          *)
(***************************************************************************)
Running == FORWARD_TEST /\ exited = "running"

\* the loop has no handler: the exception ends the process
catchBlockRethrows == [pc |-> "fetch", exited |-> "uncaughtException"]

\* lines 530-533: catch (e) logs the error and sleeps for the poll interval
catchBlock == [pc |-> "sleep532", exited |-> "running"]

Times == 1 .. MaxTime

\* the exchange does not go back in time and a closed candle is immutable: the
\* last closed bar of a fetch is later than the bar the loop consumed last, or
\* it is that bar
Fresh(rawData) ==
    \/ lastClosedTime = null
    \/ lastOf(sliceLast(rawData)).closeTime > lastClosedTime
    \/ lastOf(sliceLast(rawData)) = latest

\* lines 404-409: getLatestCandles resolved to null or to fewer than 201 candles
FwFetchFailed(rawData) ==
    /\ Running /\ pc = "fetch"
    /\ fetchFailed(rawData)
    /\ rawLength' = rawData.length
    /\ pc' = "sleep407"
    /\ UNCHANGED << FORWARD_TEST, leverage, capital, position, entryPrice, entryBar,
                    entryTime, trailingStop, positionQty, liquidationPrice, maxProfitATR,
                    trades, curAtr, latest, lastClosedTime, shutdownPending, exited >>
    /\ UNCHANGED btOnly
    /\ UNCHANGED pureOnly

\* lines 411-416: the last closed bar was consumed by an earlier iteration
FwAlreadyConsumed(rawData) ==
    /\ Running /\ pc = "fetch"
    /\ ~fetchFailed(rawData) /\ Fresh(rawData)
    /\ LET data == sliceLast(rawData)
       IN  /\ alreadyConsumed(lastClosedTime, lastOf(data).closeTime)
           /\ latest' = lastOf(data)
    /\ rawLength' = rawData.length
    /\ pc' = "sleep414"
    /\ UNCHANGED << FORWARD_TEST, leverage, capital, position, entryPrice, entryBar,
                    entryTime, trailingStop, positionQty, liquidationPrice, maxProfitATR,
                    trades, curAtr, lastClosedTime, shutdownPending, exited >>
    /\ UNCHANGED btOnly
    /\ UNCHANGED pureOnly

\* lines 417-422: the last bar of data is a bar generateSignals does not
\* evaluate, its signal has no atr
FwWarmupBar(rawData) ==
    /\ Running /\ pc = "fetch"
    /\ ~fetchFailed(rawData) /\ Fresh(rawData)
    /\ LET data == sliceLast(rawData)
       IN  /\ isWarmup(data.length - 1)
           /\ ~alreadyConsumed(lastClosedTime, lastOf(data).closeTime)
           /\ latest' = lastOf(data)
           /\ lastClosedTime' = lastOf(data).closeTime
    /\ curAtr' = signalWarmup.atr
    /\ rawLength' = rawData.length
    /\ pc' = "sleep422"
    /\ UNCHANGED << FORWARD_TEST, leverage, capital, position, entryPrice, entryBar,
                    entryTime, trailingStop, positionQty, liquidationPrice, maxProfitATR,
                    trades, shutdownPending, exited >>
    /\ UNCHANGED btOnly
    /\ UNCHANGED pureOnly

\* lines 431-444: the liquidation exit continues with the next fetch, without sleep
FwLiquidationBar(rawData, signal) ==
    /\ Running /\ pc = "fetch"
    /\ ~fetchFailed(rawData) /\ Fresh(rawData)
    /\ signal.atr # NaN
    /\ LET data == sliceLast(rawData)
           cur == lastOf(data)
       IN  /\ ~isWarmup(data.length - 1)
           /\ ~alreadyConsumed(lastClosedTime, cur.closeTime)
           /\ liquidationHit(position, cur.close, liquidationPrice)
           /\ latest' = cur
           /\ lastClosedTime' = cur.closeTime
           /\ SetLocals(fwLiquidate(Locals, cur.timestamp, regimeName(signal.regime)))
    /\ curAtr' = signal.atr
    /\ rawLength' = null
    /\ pc' = "fetch"
    /\ UNCHANGED << FORWARD_TEST, leverage, shutdownPending, exited >>
    /\ UNCHANGED btOnly
    /\ UNCHANGED pureOnly

\* lines 446-529: manage the open position, or else enter a new one
FwBar(rawData, signal) ==
    /\ Running /\ pc = "fetch"
    /\ ~fetchFailed(rawData) /\ Fresh(rawData)
    /\ signal.atr # NaN
    /\ LET data == sliceLast(rawData)
           cur == lastOf(data)
       IN  /\ ~isWarmup(data.length - 1)
           /\ ~alreadyConsumed(lastClosedTime, cur.closeTime)
           /\ ~liquidationHit(position, cur.close, liquidationPrice)
           /\ latest' = cur
           /\ lastClosedTime' = cur.closeTime
           /\ SetLocals(fwBar(Locals, cur, signal))
    /\ curAtr' = signal.atr
    /\ rawLength' = rawData.length
    /\ pc' = "sleep529"
    /\ UNCHANGED << FORWARD_TEST, leverage, shutdownPending, exited >>
    /\ UNCHANGED btOnly
    /\ UNCHANGED pureOnly

\* lines 530-533: an exception thrown in the try block, before line 417 has
\* run (consumed is FALSE) or after it and before the position is touched
\* (generateSignals threw), is caught; the loop sleeps and goes on
FwIterationThrows(rawData, consumed) ==
    /\ Running /\ pc = "fetch"
    /\ IF consumed
       THEN /\ ~fetchFailed(rawData) /\ Fresh(rawData)
            /\ ~alreadyConsumed(lastClosedTime, lastOf(sliceLast(rawData)).closeTime)
            /\ latest' = lastOf(sliceLast(rawData))
            /\ lastClosedTime' = lastOf(sliceLast(rawData)).closeTime
            /\ rawLength' = rawData.length
       ELSE /\ rawData = nullData
            /\ UNCHANGED << latest, lastClosedTime, rawLength >>
    /\ pc' = catchBlock.pc
    /\ exited' = catchBlock.exited
    /\ UNCHANGED << FORWARD_TEST, leverage, capital, position, entryPrice, entryBar,
                    entryTime, trailingStop, positionQty, liquidationPrice, maxProfitATR,
                    trades, curAtr, shutdownPending >>
    /\ UNCHANGED btOnly
    /\ UNCHANGED pureOnly

\* a setTimeout(r, updateInterval * 1000) of the loop expires: next iteration
FwWake ==
    /\ Running /\ pc \in {"sleep407", "sleep414", "sleep422", "sleep529", "sleep532"}
    /\ pc' = "fetch"
    /\ rawLength' = null
    /\ UNCHANGED << FORWARD_TEST, leverage, capital, position, entryPrice, entryBar,
                    entryTime, trailingStop, positionQty, liquidationPrice, maxProfitATR,
                    trades, curAtr, latest, lastClosedTime, shutdownPending, exited >>
    /\ UNCHANGED btOnly
    /\ UNCHANGED pureOnly

(***************************************************************************)
(* forwardTest: the shutdown handler and the status timer, which the       *)
(* event loop runs between two continuations of the main loop.             *)
(***************************************************************************)
loopState == << FORWARD_TEST, leverage, pc, entryPrice, entryBar, entryTime, position,
                trailingStop, positionQty, liquidationPrice, maxProfitATR, curAtr,
                latest, lastClosedTime, rawLength >>

\* lines 328-331 and 349-356: SIGINT or SIGTERM runs shutdown; with a position
\* open the handler suspends at its await, without one it exits the process
Signal ==
    /\ Running
    /\ shutdownPending < MaxSignals
    /\ IF position # 0
       THEN shutdownPending' = shutdownPending + 1 /\ exited' = exited
       ELSE shutdownPending' = shutdownPending /\ exited' = "exit0"
    /\ UNCHANGED << capital, trades >>
    /\ UNCHANGED loopState
    /\ UNCHANGED btOnly
    /\ UNCHANGED pureOnly

\* lines 332-356: the handler's fetch resolved to candles; force-close and exit
ShutdownResume(data, now) ==
    /\ Running
    /\ shutdownPending > 0
    /\ Fresh(data)
    /\ now >= lastOf(sliceLast(data)).closeTime
    /\ LET closed == lastOf(sliceLast(data))
           s == shutdownClose(Locals, closed, now)
       IN  capital' = s.capital /\ trades' = s.trades
    /\ exited' = "exit0"
    /\ UNCHANGED shutdownPending
    /\ UNCHANGED loopState
    /\ UNCHANGED btOnly
    /\ UNCHANGED pureOnly

\* line 332 with data = null (getLatestCandles caught a request error): the
\* TypeError rejects the handler's promise.  Node.js 15 and later end the
\* process on an unhandled rejection, Node.js 14 only warns.
ShutdownFetchFailed ==
    /\ Running
    /\ shutdownPending > 0
    /\ \/ exited' = "unhandledRejection" /\ shutdownPending' = shutdownPending
       \/ exited' = exited /\ shutdownPending' = shutdownPending - 1
    /\ UNCHANGED << capital, trades >>
    /\ UNCHANGED loopState
    /\ UNCHANGED btOnly
    /\ UNCHANGED pureOnly

\* lines 363-397: the callback reads data and signals, which are not in its
\* scope, when a position is open: the ReferenceError ends the process
StatusLogger ==
    /\ Running
    /\ exited' = IF position # 0 THEN "uncaughtException" ELSE exited
    /\ UNCHANGED << capital, trades, shutdownPending >>
    /\ UNCHANGED loopState
    /\ UNCHANGED btOnly
    /\ UNCHANGED pureOnly

(***************************************************************************)
(* Specification.                                                          *)
(***************************************************************************)
FetchLengths == {MinCandles - 1, MinCandles, 501}
FormingPrices == {9000}             \* close of the bar still forming: 90.00

Next ==
    \/ \E close \in Prices : BtWarmupBar(close)
    \/ \E close \in Prices, signal \in Signals : BtLiquidationBar(close, signal)
    \/ \E close \in Prices, signal \in Signals : BtBar(close, signal)
    \/ BtReturn
    \/ \E t \in Times, close \in Prices, fc \in FormingPrices :
           \/ FwFetchFailed(nullData)
           \/ FwFetchFailed(fetched(MinCandles - 1, t, close, fc))
    \/ \E t \in Times, close \in Prices, fc \in FormingPrices :
           FwAlreadyConsumed(fetched(501, t, close, fc))
    \/ \E len \in FetchLengths, t \in Times, close \in Prices, fc \in FormingPrices :
           FwWarmupBar(fetched(len, t, close, fc))
    \/ \E len \in FetchLengths, t \in Times, close \in Prices, fc \in FormingPrices,
          signal \in Signals :
           FwLiquidationBar(fetched(len, t, close, fc), signal)
    \/ \E len \in FetchLengths, t \in Times, close \in Prices, fc \in FormingPrices,
          signal \in Signals :
           FwBar(fetched(len, t, close, fc), signal)
    \/ \E t \in Times, close \in Prices, fc \in FormingPrices :
           \/ FwIterationThrows(nullData, FALSE)
           \/ FwIterationThrows(fetched(501, t, close, fc), TRUE)
    \/ FwWake
    \/ Signal
    \/ \E t \in Times, close \in Prices, fc \in FormingPrices, now \in 1 .. MaxTime + 2 :
           ShutdownResume(fetched(10, t, close, fc), now)
    \/ ShutdownFetchFailed
    \/ StatusLogger

Spec == Init /\ [][Next]_vars

(***************************************************************************)
(* backtest alone.  It is a synchronous for loop over data: once called it *)
(* runs on, bar after bar, until it returns.  The signals are those of a   *)
(* range market.                                                           *)
(***************************************************************************)
BacktestInit == Init /\ ~FORWARD_TEST

RangeSignals == { s \in Signals \ {signalWarmup} : s.regime.range }

BacktestNext ==
    \/ \E close \in Prices : BtWarmupBar(close)
    \/ \E close \in Prices, signal \in RangeSignals : BtLiquidationBar(close, signal)
    \/ \E close \in Prices, signal \in RangeSignals : BtBar(close, signal)
    \/ BtReturn

BacktestSpec == BacktestInit /\ [][BacktestNext]_vars /\ WF_vars(BacktestNext)

(***************************************************************************)
(* backtest with long holds.  After the bars of BacktestSpec the data may  *)
(* go on with a run of quiet bars: each repeats the close, the ATR and the *)
(* regime of the bar before it and carries no signal, and the open         *)
(* position comes out of each as it went in.  The loop ends after the run. *)
(***************************************************************************)
HoldCounts == {5, 6, 7, 29, 30, 31, 62}

regimeNamed(name) == CHOOSE g \in Regimes : regimeName(g) = name

\* the signal of a quiet bar after the bar that left curAtr and regimeLog
quietSignal == [long |-> FALSE, short |-> FALSE, atr |-> curAtr,
                regime |-> regimeNamed(regimeLog[Len(regimeLog)])]

\* lines 209-287, n times over, on bars that repeat the last close
BtQuietBars(n) ==
    /\ ~FORWARD_TEST /\ pc = "loop"
    /\ i >= WarmupBars + MaxBars
    /\ i < WarmupBars + MaxBars + n
    /\ position # 0
    /\ curAtr # NaN
    /\ \A k \in 0 .. n - 1 :
           /\ ~liquidationHit(position, row.close, liquidationPrice)
           /\ btBar(Locals, candle(i + k, row.close, TRUE), quietSignal, i + k) = Locals
    /\ row' = candle(i + n - 1, row.close, TRUE)
    /\ equityCurve' = equityCurve \o [k \in 1 .. n |-> capital]
    /\ regimeLog' = regimeLog \o [k \in 1 .. n |-> regimeLog[Len(regimeLog)]]
    /\ i' = i + n
    /\ UNCHANGED << FORWARD_TEST, leverage, pc, capital, position, entryPrice, entryBar,
                    entryTime, trailingStop, positionQty, liquidationPrice, maxProfitATR,
                    trades, curAtr >>
    /\ UNCHANGED fwOnly
    /\ UNCHANGED pureOnly

HoldNext ==
    \/ \E close \in Prices : BtWarmupBar(close)
    \/ \E close \in Prices, signal \in RangeSignals : BtLiquidationBar(close, signal)
    \/ \E close \in Prices, signal \in RangeSignals : BtBar(close, signal)
    \/ \E n \in HoldCounts : BtQuietBars(n)
    \/ BtReturn

HoldSpec == BacktestInit /\ [][HoldNext]_vars

(***************************************************************************)
(* backtest on bars whose ATR may jump: 10.00 against a mean of 10.00, or  *)
(* 40.00 on a bar four times as wide as the average.                       *)
(***************************************************************************)
MarginNext ==
    \/ \E close \in Prices : BtWarmupBar(close)
    \/ \E close \in Prices, rl \in BOOLEAN, rs \in BOOLEAN, atr \in {1000, 4000} :
           BtLiquidationBar(close, signalAt(rl, rs, atr, 1000, regimeNamed("RANGE")))
    \/ \E close \in Prices, rl \in BOOLEAN, rs \in BOOLEAN, atr \in {1000, 4000} :
           BtBar(close, signalAt(rl, rs, atr, 1000, regimeNamed("RANGE")))
    \/ BtReturn

MarginSpec == BacktestInit /\ [][MarginNext]_vars

(***************************************************************************)
(* backtest called twice on one instance with the same data, as            *)
(* compareStrategies calls it in its loop.  data is fixed at the start:    *)
(* 200 warm-up candles closing at 100.00, then up to MaxBars candles, the  *)
(* first of them with an entry signal.  result keeps what the first call   *)
(* returned.                                                               *)
(***************************************************************************)
TwiceInit ==
    /\ EngineInit
    /\ ~FORWARD_TEST
    /\ result = noCall
    /\ \E n \in 1 .. MaxBars, side \in {"long", "short"}, closes \in [1 .. MaxBars -> Prices] :
           call = [fn |-> "backtest",
                   data |-> [k \in 1 .. n |->
                               [close |-> closes[k],
                                signal |-> signalAt(k = 1 /\ side = "long",
                                                    k = 1 /\ side = "short", 1000, 1000,
                                                    [bull |-> FALSE, bear |-> FALSE,
                                                     range |-> TRUE])]]]

\* the locals are those the call before left behind
btLocalsKept(s) == s

\* lines 205-207: every call of backtest declares its locals anew
btLocalsAtCall(s) ==
    [capital |-> initialCapital, position |-> 0, entryPrice |-> 0, entryBar |-> 0,
     entryTime |-> null, trailingStop |-> 0, positionQty |-> 0, liquidationPrice |-> 0,
     maxProfitATR |-> Num(0), trades |-> << >>]

\* the first call has returned; backtest is called again with the same data
BtCallAgain ==
    /\ ~FORWARD_TEST
    /\ pc = "returned"
    /\ call.fn = "backtest"
    /\ result = noCall
    /\ result' = [fn |-> "backtest", trades |-> trades, equityCurve |-> equityCurve,
                  regimeLog |-> regimeLog]
    /\ pc' = "loop"
    /\ SetLocals(btLocalsAtCall(Locals))
    /\ equityCurve' = << >>
    /\ regimeLog' = << >>
    /\ i' = 0
    /\ row' = noCandle
    /\ curAtr' = NaN
    /\ UNCHANGED << FORWARD_TEST, leverage, call >>
    /\ UNCHANGED fwOnly

TwiceNext ==
    \/ i < WarmupBars /\ BtWarmupBar(10000)
    \/ /\ i >= WarmupBars /\ i < WarmupBars + Len(call.data)
       /\ BtLiquidationBar(call.data[i - WarmupBars + 1].close,
                           call.data[i - WarmupBars + 1].signal)
    \/ /\ i >= WarmupBars /\ i < WarmupBars + Len(call.data)
       /\ BtBar(call.data[i - WarmupBars + 1].close, call.data[i - WarmupBars + 1].signal)
    \/ i = WarmupBars + Len(call.data) /\ BtReturn
    \/ BtCallAgain

TwiceSpec == TwiceInit /\ [][TwiceNext]_vars

(***************************************************************************)
(* generateSignals alone, followed by the entry block of backtest.  The    *)
(* bar is drawn from the bars on which the rule of its strategy mode can   *)
(* go either way; a candle has low <= close <= high.  What a mode does not *)
(* read is left at a fixed value.                                          *)
(***************************************************************************)
RSIs == {20, 27, 45, 55, 65, 75}
EmaLevels == {9000, 11000}          \* an EMA of the bar before: 90.00, 110.00
Ema200Levels == {9000, 13000}
Volumes == {100, 130}

WellFormed(c) == c.low <= c.close /\ c.close <= c.high

PrevCandles == { c \in [low : Prices, close : Prices, high : Prices] : WellFormed(c) }

flatCandle(close) == [low |-> close, close |-> close, high |-> close]

\* the bar of index WarmupBars of a quiet range market in adaptive mode
quietBar ==
    [fn |-> "generateSignals", strategyMode |-> "adaptive", idx |-> WarmupBars,
     regime |-> [bull |-> FALSE, bear |-> FALSE, range |-> TRUE],
     rsi |-> 45, rsiPrev |-> 50, close |-> 10000, prev |-> flatCandle(10000),
     olderLow |-> 8000, olderHigh |-> 12000, volume |-> 100, prevVolume |-> 100,
     ema20Prev |-> 9000, ema50Prev |-> 9000, ema200Prev |-> 9000,
     atr |-> 1000, atrMA |-> 1000]

\* <<atr[i], mean of atr.slice(i - 50, i)>>: above the gate, below it, exactly
\* 0.8 times the mean, and a market that does not move
GateCases == { <<1000, 1000>>, <<1000, 2000>>, <<1600, 2000>>, <<0, 0>> }

meanReversionBar(r, c, e200) ==
    [quietBar EXCEPT !.strategyMode = "mean_reversion", !.rsi = r, !.close = c,
                     !.ema200Prev = e200]

momentumBar(r, c, pv, ol, oh, e) ==
    [quietBar EXCEPT !.strategyMode = "momentum", !.rsi = r, !.close = c, !.prev = pv,
                     !.olderLow = ol, !.olderHigh = oh,
                     !.ema20Prev = e[1], !.ema50Prev = e[2], !.ema200Prev = e[3]]

pullbackBar(r, c, e20, e200) ==
    [quietBar EXCEPT !.strategyMode = "pullback", !.rsi = r, !.close = c,
                     !.ema20Prev = e20, !.ema200Prev = e200]

bearMarketBar(r, c, pv, ol, v, e) ==
    [quietBar EXCEPT !.strategyMode = "bear_market", !.rsi = r, !.close = c, !.prev = pv,
                     !.olderLow = ol, !.volume = v,
                     !.ema20Prev = e[1], !.ema50Prev = e[2], !.ema200Prev = e[3]]

adaptiveBar(g, r, c, pc0, e) ==
    [quietBar EXCEPT !.regime = g, !.rsi = r, !.close = c, !.prev = flatCandle(pc0),
                     !.ema20Prev = e[1], !.ema50Prev = e[2], !.ema200Prev = e[3]]

\* a bar on which the rule of the mode gives a signal, under a case of the gate
gateBar(m, r, g) ==
    [ (IF m = "pullback"
       THEN [quietBar EXCEPT !.strategyMode = m, !.rsi = 55, !.ema20Prev = 11000]
       ELSE [quietBar EXCEPT !.strategyMode = m, !.rsi = r, !.close = 12000,
                             !.olderHigh = 8000, !.volume = 130])
      EXCEPT !.atr = g[1], !.atrMA = g[2] ]

\* the last bar of the warm-up
warmupBar(m) == [quietBar EXCEPT !.strategyMode = m, !.idx = WarmupBars - 1, !.rsi = 20]

EmaTriples == EmaLevels \X EmaLevels \X Ema200Levels

\* the bar b of a backtest called with useRegimeParams = u
withSizing(b, u) ==
    [f \in DOMAIN b \cup {"useRegimeParams"} |->
        IF f = "useRegimeParams" THEN u ELSE b[f]]

SignalInit ==
    /\ EngineInit
    /\ ~FORWARD_TEST
    /\ result = noCall
    /\ \/ \E r \in RSIs, c \in Prices, e200 \in Ema200Levels :
              \E u \in BOOLEAN : call = withSizing(meanReversionBar(r, c, e200), u)
       \/ \E r \in RSIs, c \in Prices, pv \in PrevCandles, ol \in {8000, 12000},
              oh \in {8000, 12000}, e \in EmaTriples :
              \E u \in BOOLEAN : call = withSizing(momentumBar(r, c, pv, ol, oh, e), u)
       \/ \E r \in RSIs, c \in Prices, e20 \in EmaLevels, e200 \in Ema200Levels :
              \E u \in BOOLEAN : call = withSizing(pullbackBar(r, c, e20, e200), u)
       \/ \E r \in RSIs, c \in Prices, pv \in PrevCandles, ol \in {8000, 12000},
              v \in Volumes, e \in EmaTriples :
              \E u \in BOOLEAN : call = withSizing(bearMarketBar(r, c, pv, ol, v, e), u)
       \/ \E g \in Regimes, r \in RSIs, c \in Prices, pc0 \in Prices, e \in EmaTriples :
              \E u \in BOOLEAN : call = withSizing(adaptiveBar(g, r, c, pc0, e), u)
       \/ \E m \in StrategyModes, r \in {20, 55, 75}, g \in GateCases :
              \E u \in BOOLEAN : call = withSizing(gateBar(m, r, g), u)
       \/ \E m \in StrategyModes : \E u \in BOOLEAN : call = withSizing(warmupBar(m), u)

GenerateSignals ==
    /\ call.fn = "generateSignals"
    /\ result = noCall
    /\ result' = generateSignals(call)
    /\ UNCHANGED << engineVars, call >>

\* the bar call.idx of backtest, met with no position open: lines 273-286
EnterOnSignal ==
    /\ result.fn = "generateSignals"
    /\ position = 0
    /\ result.signal.atr # NaN
    /\ result.signal.long \/ result.signal.short
    /\ SetLocals(btBarSized(Locals, candle(call.idx, call.close, TRUE), result.signal,
                            call.idx, call.useRegimeParams))
    /\ UNCHANGED << FORWARD_TEST, leverage, pc, equityCurve, regimeLog, i, row, latest,
                    curAtr, lastClosedTime, shutdownPending, exited, rawLength,
                    call, result >>

SignalNext == GenerateSignals \/ EnterOnSignal

SignalSpec == SignalInit /\ [][SignalNext]_vars

(***************************************************************************)
(* calcDynamicTrail alone.  The position was entered at 100.00; the        *)
(* current price lies at a loss, at the entry, or at a profit on either    *)
(* side of the profit threshold and of every tier, for an ATR of 10.00,    *)
(* and at other multiples of an ATR of 20.00 or of no ATR at all.          *)
(***************************************************************************)
TrailEntry == 10000
TrailOffsets == {0, 100, 200, 500, 1000, 1500, 2000, 2500, 3000, 3500}
TrailPrices == { TrailEntry + d : d \in TrailOffsets } \cup { TrailEntry - d : d \in TrailOffsets }
TrailATRs == {0, 1000, 2000}

TrailCalls ==
    [fn : {"calcDynamicTrail"}, curPrice : TrailPrices, entryPrice : {TrailEntry},
     curAtr : TrailATRs, pos : {1, -1}, regime : Regimes]

TrailInit == EngineInit /\ ~FORWARD_TEST /\ call \in TrailCalls /\ result = noCall

CalcDynamicTrail ==
    /\ call.fn = "calcDynamicTrail"
    /\ result = noCall
    /\ result' = [fn |-> "calcDynamicTrail",
                  stop |-> calcDynamicTrail(call.curPrice, call.entryPrice, call.curAtr,
                                            call.pos, call.regime)]
    /\ UNCHANGED << engineVars, call >>

TrailSpec == TrailInit /\ [][CalcDynamicTrail]_vars

(***************************************************************************)
(* calcSlippage and calcStopSlip alone: a price or a stop trigger from     *)
(* 0.01 to 120.00 (a stop also at 0), and an ATR from 0 to twice the       *)
(* highest price.                                                          *)
(***************************************************************************)
SlipPrices == {1, 100, 8000, 10000, 12000}
SlipATRs == {0, 1, 1000, 24000}

SlipCalls ==
    [fn : {"calcSlippage"}, price : SlipPrices, side : {"buy", "sell"}, atr : SlipATRs]
        \cup [fn : {"calcStopSlip"}, price : SlipPrices \cup {0}, side : {"long", "short"},
              atr : SlipATRs]

SlipInit == EngineInit /\ ~FORWARD_TEST /\ call \in SlipCalls /\ result = noCall

CalcSlippage ==
    /\ call.fn = "calcSlippage"
    /\ result = noCall
    /\ result' = [fn |-> "calcSlippage", price |-> calcSlippage(call.price, call.side, call.atr)]
    /\ UNCHANGED << engineVars, call >>

CalcStopSlip ==
    /\ call.fn = "calcStopSlip"
    /\ result = noCall
    /\ result' = [fn |-> "calcStopSlip", price |-> calcStopSlip(call.price, call.side, call.atr)]
    /\ UNCHANGED << engineVars, call >>

SlipNext == CalcSlippage \/ CalcStopSlip

SlipSpec == SlipInit /\ [][SlipNext]_vars

(***************************************************************************)
(* detectRegime alone: bars on both sides of the lookback and of the bar   *)
(* from which the slope is taken, price changes of 0, 10% and 20% up and   *)
(* down and from a close of 0, means that differ by less and by more than  *)
(* 0.1%.                                                                   *)
(***************************************************************************)
RegimeCalls ==
    [fn : {"detectRegime"},
     idx : {0, Lookback - 1, Lookback, Lookback + 4, Lookback + 5, WarmupBars},
     close : {8000, 9000, 10000, 11000, 12000},
     back : {0, 10000},
     sma : {9000, 9990, 10000, 10010},
     smaBefore : {9000, 9999, 10000, 10001, 11000}]

RegimeInit == EngineInit /\ ~FORWARD_TEST /\ call \in RegimeCalls /\ result = noCall

DetectRegime ==
    /\ call.fn = "detectRegime"
    /\ result = noCall
    /\ result' = [fn |-> "detectRegime", regime |-> detectRegime(call)]
    /\ UNCHANGED << engineVars, call >>

RegimeSpec == RegimeInit /\ [][DetectRegime]_vars

(***************************************************************************)
(* generateSignals on an array and on the same array with more candles     *)
(* after it.  The array has 201 or 202 candles of one shape (flat, rising, *)
(* falling, zigzag) and its last close may jump; the candles after it are  *)
(* far above and far below everything before.  result keeps what           *)
(* generateSignals reads and returns for the last bar of the array, once   *)
(* computed on the array and once on the longer one.                       *)
(***************************************************************************)
shapeCandle(shape, k, close) ==
    LET c == IF close # 0 THEN close
             ELSE CASE shape = "flat" -> 10000
                    [] shape = "rising" -> 8000 + 20 * k
                    [] shape = "falling" -> 12000 - 20 * k
                    [] OTHER -> IF k % 2 = 0 THEN 10200 ELSE 9800
    IN  [low |-> c - 50, close |-> c, high |-> c + 50, volume |-> 100 + 20 * (k % 3)]

\* data of a call: len candles of the shape, the last with the close given
\* (0: the close of the shape)
shapeData(shape, len, lastClose) ==
    [k \in 1 .. len |-> shapeCandle(shape, k - 1, IF k = len THEN lastClose ELSE 0)]

CausalInit ==
    /\ EngineInit
    /\ ~FORWARD_TEST
    /\ result = noCall
    /\ call \in [fn : {"generateSignalsAt"},
                  shape : {"flat", "rising", "falling", "zigzag"},
                  len : {WarmupBars + 1, WarmupBars + 2},
                  lastClose : {0, 8000, 12000},
                  after : { << >>, << shapeCandle("flat", 0, 20000) >>,
                            << shapeCandle("flat", 0, 100) >>,
                            << shapeCandle("flat", 0, 20000), shapeCandle("flat", 0, 100) >> }]

GenerateSignalsAt ==
    /\ call.fn = "generateSignalsAt"
    /\ result = noCall
    /\ LET data == shapeData(call.shape, call.len, call.lastClose)
       IN  result' = [fn |-> "generateSignalsAt",
                      alone |-> indicatorsAt(data, call.len - 1),
                      extended |-> indicatorsAt(data \o call.after, call.len - 1)]
    /\ UNCHANGED << engineVars, call >>

CausalSpec == CausalInit /\ [][GenerateSignalsAt]_vars

(***************************************************************************)
(* calcRSI on arrays of 15 to 201 candles, at the last bar.                *)
(***************************************************************************)
RsiInit ==
    /\ EngineInit
    /\ ~FORWARD_TEST
    /\ result = noCall
    /\ call \in [fn : {"calcRSI"},
                  shape : {"flat", "rising", "falling", "zigzag"},
                  len : {15, 16, 17, 30, WarmupBars + 1},
                  lastClose : {0, 8000, 12000}]

CalcRSI ==
    /\ call.fn = "calcRSI"
    /\ result = noCall
    /\ result' = [fn |-> "calcRSI",
                  rsi |-> calcRSI(shapeData(call.shape, call.len, call.lastClose),
                                  call.len - 1)]
    /\ UNCHANGED << engineVars, call >>

RsiSpec == RsiInit /\ [][CalcRSI]_vars

(***************************************************************************)
(* Properties.                                                             *)
(***************************************************************************)
LastTrade(ledger) == ledger[Len(ledger)]

\* the close of the bar a loop read last
BarClose == IF FORWARD_TEST THEN latest.close ELSE row.close

\* a step in which a loop takes a bar whose ATR is defined, and runs to the end
\* of its try block
BarStep ==
    /\ IF FORWARD_TEST THEN lastClosedTime' # lastClosedTime ELSE i' = i + 1
    /\ curAtr' # NaN
    /\ pc' # "sleep532"

OneTradeAppended == Len(trades') = Len(trades) + 1 /\ SubSeq(trades', 1, Len(trades)) = trades

ManualShutdowns == { k \in DOMAIN trades : trades[k].exitReason = "manual_shutdown" }

\* C1: the equityCurve backtest returns has exactly one entry per candle of
\* data, whatever happened on the bar (warm-up, flat, open, stop exit,
\* liquidation exit).
C1_EquityCurveOnePerCandle ==
    (~FORWARD_TEST /\ pc = "returned") => Len(equityCurve) = i

\* C2: while one position stays open, in both loops, the trailing stop never
\* decreases for a long and never increases for a short from one processed bar
\* to the next.
C2_TrailingStopMonotone ==
    [][ (position # 0 /\ position' = position /\ trades' = trades)
        => /\ position = 1 => trailingStop' >= trailingStop
           /\ position = -1 => trailingStop' <= trailingStop ]_vars

\* a long whose stop has been raised above its entry price, or a short whose
\* stop has been lowered below it
C2_Witness ==
    \/ position = 1 /\ trailingStop > entryPrice
    \/ position = -1 /\ trailingStop < entryPrice

\* C3: on a processed bar whose close breaches the liquidation price of the
\* open position, in both loops, exactly one trade is recorded, its reason is
\* 'liquidation' even when the stop is hit as well, the trailing stop is not
\* updated, and the position is flat after the bar.
C3_LiquidationPriority ==
    [][ ( /\ BarStep
          /\ \/ position = 1 /\ BarClose' <= liquidationPrice
             \/ position = -1 /\ BarClose' >= liquidationPrice )
        => /\ OneTradeAppended
           /\ LastTrade(trades').exitReason = "liquidation"
           /\ trailingStop' = trailingStop
           /\ position' = 0 ]_vars

\* a liquidation was recorded on a bar whose close also hit the trailing stop
C3_Witness ==
    /\ trades # << >>
    /\ LastTrade(trades).exitReason = "liquidation"
    /\ LastTrade(trades).exitTime = (IF FORWARD_TEST THEN latest.timestamp ELSE row.timestamp)
    /\ position = 0
    /\ \/ LastTrade(trades).direction = "long" /\ BarClose <= trailingStop
       \/ LastTrade(trades).direction = "short" /\ BarClose >= trailingStop

\* C4: a step that records a 'liquidation' trade gives it pnl
\* -(entryPrice * positionQty) and return -1, and lowers capital by exactly
\* entryPrice * positionQty.
C4_LiquidationLosesMargin ==
    [][ (OneTradeAppended /\ LastTrade(trades').exitReason = "liquidation")
        => /\ LastTrade(trades').pnl = -((entryPrice * positionQty) \div 100)
           /\ LastTrade(trades').return = [num |-> -1, den |-> 1]
           /\ capital' = capital - ((entryPrice * positionQty) \div 100) ]_vars

\* the ledger ends with a liquidation that cost a positive margin
C4_Witness ==
    /\ trades # << >>
    /\ LastTrade(trades).exitReason = "liquidation"
    /\ LastTrade(trades).pnl < 0
    /\ capital < initialCapital

\* C5: a trade closed by a stop hit has reason 'profit_protection' exactly
\* when the largest profit in ATR units seen on any bar of the position,
\* the exit bar included, exceeded the profit threshold, and 'initial_stop'
\* otherwise.
C5_ExitReasonByMaxExcursion ==
    [][ ( /\ BarStep
          /\ OneTradeAppended
          /\ LastTrade(trades').exitReason \in {"profit_protection", "initial_stop"} )
        => LET profitAmt == IF position = 1 THEN BarClose' - entryPrice
                            ELSE entryPrice - BarClose'
               excursion == MathMax(maxProfitATR, Div(profitAmt, curAtr'))
           IN  LastTrade(trades').exitReason =
                   IF GT(excursion, Num(profitThresholdATR))
                   THEN "profit_protection" ELSE "initial_stop" ]_vars

\* C6: the ledger never has overlapping trades: every trade is entered no
\* earlier than the trade before it was exited.
C6_TradesNeverOverlap ==
    \A k \in 1 .. Len(trades) - 1 : trades[k + 1].entryTime >= trades[k].exitTime

\* C7: when forwardTest has ended with a shutdown handler that found a position
\* open, exactly one 'manual_shutdown' trade is in the ledger, whatever the
\* handler's fetch returned and however many signals were delivered.
C7_ShutdownClosesPosition ==
    (FORWARD_TEST /\ exited # "running" /\ shutdownPending > 0)
        => Cardinality(ManualShutdowns) = 1

\* C8: no position is closed twice: no two trades of the ledger belong to the
\* same entry.
C8_NoPositionClosedTwice ==
    \A j \in DOMAIN trades, k \in DOMAIN trades :
        j # k => trades[j].entryTime # trades[k].entryTime

\* C9: in forwardTest position, trailingStop and capital are changed by the
\* main loop only, that is, only in a step that consumes a bar.
C9_MainLoopIsSingleOwner ==
    [][ ( /\ FORWARD_TEST
          /\ \/ position' # position
             \/ trailingStop' # trailingStop
             \/ capital' # capital )
        => lastClosedTime' # lastClosedTime ]_vars

\* C10: in forwardTest a bar is consumed only when it is closed and closes
\* later than every bar consumed before, and the per-bar decisions (entry,
\* stop update, stop exit, liquidation) are taken only in a step that consumes
\* such a bar.
C10_BarsConsumedOnce ==
    [][ FORWARD_TEST =>
        /\ lastClosedTime' # lastClosedTime
             => /\ lastClosedTime' > lastClosedTime
                /\ latest'.isClosed
                /\ latest'.closeTime = lastClosedTime'
        /\ ( \/ position' # position
             \/ entryPrice' # entryPrice
             \/ trailingStop' # trailingStop
             \/ maxProfitATR' # maxProfitATR
             \/ /\ Len(trades') > Len(trades)
                /\ LastTrade(trades').exitReason # "manual_shutdown" )
             => lastClosedTime' # lastClosedTime ]_vars

\* the loop fetched again the bar it had consumed, with a position open, and
\* went to sleep without processing it
C10_Witness ==
    /\ FORWARD_TEST
    /\ pc = "sleep414"
    /\ latest.closeTime = lastClosedTime
    /\ position # 0

\* what one bar with a defined ATR does to the locals of backtest
btDecide(s, r, signal, idx) ==
    IF liquidationHit(s.position, r.close, s.liquidationPrice)
    THEN btLiquidate(s, r, idx, regimeName(signal.regime))
    ELSE btBar(s, r, signal, idx)

\* what the same bar does to the locals of forwardTest
fwDecide(s, cur, signal) ==
    IF liquidationHit(s.position, cur.close, s.liquidationPrice)
    THEN fwLiquidate(s, cur.timestamp, regimeName(signal.regime))
    ELSE fwBar(s, cur, signal)

\* the fields the two loops record alike in a trade
tradeView(tr) ==
    [direction |-> tr.direction, entryPrice |-> tr.entryPrice, exitPrice |-> tr.exitPrice,
     pnl |-> tr.pnl, exitReason |-> tr.exitReason]

\* what the comparison of the two loops looks at after a bar
decisionView(s) ==
    [position |-> s.position, entryPrice |-> s.entryPrice, trailingStop |-> s.trailingStop,
     liquidationPrice |-> s.liquidationPrice, capital |-> s.capital,
     trades |-> [k \in DOMAIN s.trades |-> tradeView(s.trades[k])]]

\* C11: from every state backtest reaches, the next bar (any close, any signal
\* with a defined ATR) leaves position, entryPrice, trailingStop,
\* liquidationPrice, capital and the recorded trades the same whether the
\* per-bar logic of backtest or that of forwardTest processes it, also when
\* the bar closes the position by its stop and carries an entry signal.
C11_LiveLoopMatchesBatchLoop ==
    (~FORWARD_TEST /\ pc = "loop" /\ ~isWarmup(i))
        => \A close \in Prices, signal \in Signals \ {signalWarmup} :
               decisionView(btDecide(Locals, candle(i, close, TRUE), signal, i))
                   = decisionView(fwDecide([Locals EXCEPT !.entryTime = entryBar],
                                           candle(i, close, TRUE), signal))

EndOfData == { k \in DOMAIN trades : trades[k].exitReason = "end_of_data" }

\* the ledger backtest returns
ReturnedLedger ==
    /\ \A j \in DOMAIN trades, k \in DOMAIN trades :
           j # k => trades[j].entryTime # trades[k].entryTime
    /\ position = 0 => EndOfData = { }
    /\ position # 0
         => /\ EndOfData = { Len(trades) }
            /\ LastTrade(trades).entryTime = entryBar
            /\ LastTrade(trades).exitPrice = row.close
            /\ LastTrade(trades).exitTime = i - 1

\* a step that ends the life of the open position: it goes flat, it is
\* replaced by a position entered on this bar, or backtest returns
PositionEnds ==
    position # 0 /\ (position' = 0 \/ entryBar' # entryBar \/ pc' = "returned")

\* C12: backtest returns; every position that was opened gets exactly one
\* trade, recorded in the step that ends it; and on return a position still
\* open after the last bar has been closed at the last candle's close with
\* reason 'end_of_data', as the last trade and the only one with that reason.
C12_BacktestClosesEveryPosition ==
    /\ <>(pc = "returned")
    /\ [](pc = "returned" => ReturnedLedger)
    /\ [][ /\ PositionEnds => (OneTradeAppended /\ LastTrade(trades').entryTime = entryBar)
           /\ trades' # trades => PositionEnds ]_vars

\* backtest returned with an earlier trade in the ledger and the position that
\* was open after the last bar closed as 'end_of_data'
C12_Witness ==
    /\ ~FORWARD_TEST /\ pc = "returned"
    /\ position # 0
    /\ Len(trades) >= 2
    /\ LastTrade(trades).exitReason = "end_of_data"

\* a step of the forwardTest loop: it moves on in its code or consumes a bar
LoopStep == FORWARD_TEST /\ (pc' # pc \/ lastClosedTime' # lastClosedTime)

\* C13: no step of the forwardTest loop ends the process, a step in which the
\* try block throws included: the catch block leaves the loop asleep for the
\* poll interval and running, and the loop goes from that sleep to the fetch
\* of a further iteration.
C13_IterationErrorsAreCaught ==
    [][ /\ LoopStep => exited' = exited
        /\ (LoopStep /\ pc' = "sleep532") => (pc = "fetch" /\ exited' = "running")
        /\ (LoopStep /\ pc = "sleep532") => pc' = "fetch" ]_vars

\* the try block threw after it had consumed a bar, with a position open; the
\* process is running and the loop sleeps in its catch block
C13_Witness ==
    /\ FORWARD_TEST /\ exited = "running"
    /\ pc = "sleep532"
    /\ position # 0
    /\ lastClosedTime = latest.closeTime
    /\ lastClosedTime > entryTime + 1

\* a step in which the loop's fetch fails: the loop goes to the sleep of line
\* 407, or the fetch gave fewer than 201 candles
FailedFetchStep ==
    /\ FORWARD_TEST /\ pc = "fetch"
    /\ \/ pc' = "sleep407"
       \/ rawLength' # rawLength /\ rawLength' < MinCandles

\* C14: a forwardTest iteration whose fetch gives null or fewer than 201
\* candles leaves position, entryPrice, trailingStop, capital, trades and
\* lastClosedTime unchanged and the process running, sleeps for the poll
\* interval, and then fetches again.
C14_FailedFetchRetries ==
    [][ /\ FailedFetchStep
           => /\ pc' = "sleep407"
              /\ UNCHANGED << position, entryPrice, trailingStop, capital, trades,
                              lastClosedTime >>
              /\ exited' = "running"
        /\ (LoopStep /\ pc = "sleep407") => pc' = "fetch" ]_vars

\* a fetch of 200 candles with a position open: the loop sleeps before its retry
C14_Witness ==
    /\ FORWARD_TEST /\ exited = "running"
    /\ pc = "sleep407"
    /\ rawLength = MinCandles - 1
    /\ position # 0

\* C15: backtest does not return a result for an empty candle sequence (it
\* raises a configuration error instead): it never returns with no candle read.
C15_EmptyDataRaises ==
    ~(~FORWARD_TEST /\ pc = "returned" /\ i = 0)

\* C16: in every strategy mode, on every bar whose candles have
\* low <= close <= high, generateSignals never returns long and short both
\* true, and the rule of the mode does not yield both before the volatility
\* gate either
C16_LongShortExclusive ==
    (result.fn = "generateSignals" /\ WellFormed(call.prev))
        => /\ ~(result.raw.long /\ result.raw.short)
           /\ ~(result.signal.long /\ result.signal.short)

\* the bear_market mode buys a bounce on a bar that is below its EMA 200 and
\* follows a close above the EMA 20: the bar its second short condition is about
C16_Witness ==
    /\ result.fn = "generateSignals"
    /\ call.strategyMode = "bear_market"
    /\ result.signal.long
    /\ ~result.signal.short
    /\ call.prev.close > call.ema20Prev
    /\ below(call.close, ema(call.close, call.ema200Prev, 200), 200)
\* a bar of backtest with index below WarmupBars, or with an undefined ATR
PassedThroughBar == ~FORWARD_TEST /\ i' = i + 1 /\ (i < WarmupBars \/ curAtr' = NaN)

\* C17: in backtest a bar with index below 200 or with an undefined ATR
\* opens no position and records no trade; it leaves the position and the
\* capital as they were and appends the unchanged capital to the equity curve
C17_WarmupBarsPassThrough ==
    [][ PassedThroughBar
            => /\ UNCHANGED << capital, position, entryPrice, entryBar, positionQty,
                               trailingStop, liquidationPrice, trades, regimeLog >>
               /\ position = 0
               /\ equityCurve' = Append(equityCurve, capital) ]_vars

\* all bars below index 200 and one bar with an undefined ATR after them have
\* been passed through
C17_Witness ==
    /\ ~FORWARD_TEST
    /\ i = WarmupBars + 1
    /\ curAtr = NaN
    /\ Len(equityCurve) = WarmupBars + 1
    /\ position = 0 /\ trades = << >>
\* C18: when ATR[i] is not strictly greater than 0.8 times the mean of the 50
\* ATR values before bar i, generateSignals returns neither long nor short in
\* any strategy mode, and backtest opens no position on that bar
C18_VolatilityGateSuppresses ==
    (result.fn = "generateSignals" /\ ~isWarmup(call.idx) /\ 10 * call.atr <= 8 * call.atrMA)
        => /\ ~result.signal.long
           /\ ~result.signal.short
           /\ position = 0

\* the rule of the mode gave a signal on a bar whose ATR is exactly 0.8 times
\* the mean, and the signal returned has none
C18_Witness ==
    /\ result.fn = "generateSignals"
    /\ result.raw.long \/ result.raw.short
    /\ call.atr = 1600 /\ call.atrMA = 2000
    /\ ~result.signal.long /\ ~result.signal.short
    /\ position = 0
\* the profit of the position of a calcDynamicTrail call at a price, in ATR
profitATRAt(c, price) ==
    Div(IF c.pos = 1 THEN price - c.entryPrice ELSE c.entryPrice - price, c.curAtr)

InProfitPhase(c, price) == GE(profitATRAt(c, price), Num(profitThresholdATR))

\* the tiers whose threshold the profit has reached
ReachedTiers(c, price) ==
    { k \in 1 .. Len(profitTiers) : GE(profitATRAt(c, price), Num(profitTiers[k].profitATR)) }

\* the trail multiplier of the reached tier with the largest threshold, or the
\* base multiplier when no tier is reached
LastSatisfiedTrail(c, price) ==
    IF ReachedTiers(c, price) = {} THEN profitTrailingATR
    ELSE LET k == CHOOSE k \in ReachedTiers(c, price) :
                      \A j \in ReachedTiers(c, price) :
                          profitTiers[j].profitATR <= profitTiers[k].profitATR
         IN  profitTiers[k].trailATR

\* C19: in the profit phase the stop of calcDynamicTrail lies at the current
\* price minus (long) or plus (short) ATR times the trail multiplier of the
\* last satisfied tier of the ascending tier list, or the base multiplier
\* when no tier is reached, times the profit multiplier of the regime
C19_LastSatisfiedTierWins ==
    /\ \A k \in 1 .. Len(profitTiers) - 1 :
           profitTiers[k].profitATR < profitTiers[k + 1].profitATR
    /\ (result.fn = "calcDynamicTrail" /\ InProfitPhase(call, call.curPrice))
           => LET dist == (LastSatisfiedTrail(call, call.curPrice)
                              * regimeMultipliers[regType(call.regime)].profit
                              * call.curAtr) \div 10000
              IN  result.stop = IF call.pos = 1 THEN call.curPrice - dist
                                ELSE call.curPrice + dist

\* a short in a bear market is 2.5 ATR in profit: the first and the second
\* tier are reached, and the stop trails by the second tier's 0.5 * 1.2 ATR
C19_Witness ==
    /\ result.fn = "calcDynamicTrail"
    /\ call.pos = -1 /\ call.regime.bear /\ call.curAtr = 1000
    /\ call.curPrice = TrailEntry - 2500
    /\ ReachedTiers(call, call.curPrice) = {1, 2}
    /\ result.stop = call.curPrice + 600
\* the distance between a price and the stop calcDynamicTrail puts behind it
trailDistanceAt(c, price) ==
    LET stop == calcDynamicTrail(price, c.entryPrice, c.curAtr, c.pos, c.regime)
    IN  IF c.pos = 1 THEN price - stop ELSE stop - price

\* the smallest trail multiplier among the reached tiers
TightestReachedTrail(c, price) ==
    LET k == CHOOSE k \in ReachedTiers(c, price) :
                 \A j \in ReachedTiers(c, price) :
                     profitTiers[k].trailATR <= profitTiers[j].trailATR
    IN  profitTiers[k].trailATR

\* C20: with the configured tier table the trailing distance of the profit
\* phase tightens progressively: for a fixed regime and ATR the distance at a
\* price with more profit is never larger, and the multiplier used is the
\* tightest among the tiers whose threshold has been reached
C20_TrailTightensWithProfit ==
    (result.fn = "calcDynamicTrail" /\ call.curAtr > 0 /\ InProfitPhase(call, call.curPrice))
        => /\ \A price \in TrailPrices :
                  GE(profitATRAt(call, price), profitATRAt(call, call.curPrice))
                      => trailDistanceAt(call, price) <= trailDistanceAt(call, call.curPrice)
           /\ ReachedTiers(call, call.curPrice) # {}
                  => trailDistanceAt(call, call.curPrice)
                         = (TightestReachedTrail(call, call.curPrice)
                               * regimeMultipliers[regType(call.regime)].profit
                               * call.curAtr) \div 10000
\* a step of backtest that closes a position on its trailing stop
StopExitStep ==
    /\ ~FORWARD_TEST
    /\ Len(trades') = Len(trades) + 1
    /\ LastTrade(trades').exitReason \in {"initial_stop", "profit_protection"}

C23_SlippageAgainstTrade ==
    /\ result.fn = "calcSlippage"
           => /\ call.side = "buy" => result.price >= call.price
              /\ call.side = "sell" => result.price <= call.price
    /\ result.fn = "calcStopSlip"
           => /\ call.side = "long" => (result.price <= call.price /\ result.price >= 0)
              /\ call.side = "short" => result.price >= call.price

\* a buy in a volatile market paid more than the close
C23_Witness ==
    /\ result.fn = "calcSlippage"
    /\ call.side = "buy"
    /\ call.atr > 0
    /\ result.price > call.price
\* C24: detectRegime gives every candle exactly one true flag among bull,
\* bear and range: bull and bear are never both true, range is true exactly
\* when neither is, and a bar with index below the lookback is range
C24_ExactlyOneRegime ==
    result.fn = "detectRegime"
        => LET g == result.regime
           IN  /\ ~(g.bull /\ g.bear)
               /\ g.range <=> (~g.bull /\ ~g.bear)
               /\ Cardinality({ f \in {"bull", "bear", "range"} : g[f] }) = 1
               /\ call.idx < Lookback => g.range
               /\ g \in Regimes

\* a bar past the lookback whose close fell by 20% and whose mean fell by
\* more than 0.1% is a bear bar and nothing else
C24_Witness ==
    /\ result.fn = "detectRegime"
    /\ call.idx >= Lookback + 5
    /\ call.close = 8000 /\ call.back = 10000
    /\ result.regime.bear
    /\ ~result.regime.bull /\ ~result.regime.range
\* the second call of backtest on the same data has returned
SecondReturn == ~FORWARD_TEST /\ pc = "returned" /\ result.fn = "backtest"

C26_SignalsAreCausal ==
    result.fn = "generateSignalsAt" => result.extended = result.alone

\* the bar was followed by a candle far above all earlier ones, and the
\* indicators of the bar are defined
C26_Witness ==
    /\ result.fn = "generateSignalsAt"
    /\ Len(call.after) = 2
    /\ call.after[1].high > result.extended.recentHigh
    /\ result.extended.atr # NaN
    /\ ~isNaN(result.extended.rsi)
    /\ result.extended.regime.bull

\* none of the 14 one-bar changes that end at the last bar of the call is a loss
NoLossInWindow ==
    LET data == shapeData(call.shape, call.len, call.lastClose)
    IN  \A j \in call.len - 14 .. call.len - 1 : data[j + 1].close >= data[j].close

\* C27: calcRSI with period 14 gives a value in [0, 100] at every bar
\* i >= 14, and exactly 100 when the trailing 14 changes contain no loss
\* (a flat or a rising window); the result is never NaN
C27_RsiBoundedAndSaturates ==
    result.fn = "calcRSI" =>
        /\ ~isNaN(result.rsi)
        /\ GE(result.rsi, Div(0, 1)) /\ GE(Div(100, 1), result.rsi)
        /\ NoLossInWindow => GE(result.rsi, Div(100, 1))

\* the RSI of bar 14 of a flat array, where gains and losses are both 0
C27_Witness ==
    /\ result.fn = "calcRSI"
    /\ call.shape = "flat" /\ call.len = 15 /\ call.lastClose = 0
    /\ NoLossInWindow
    /\ result.rsi = Div(100, 1)

\* the tenths of the capital a trade is allotted, from the README table and
\* the default of line 215
allottedTenths ==
    IF ~call.useRegimeParams THEN 5
    ELSE IF result.signal.regime.bull THEN 5
    ELSE IF result.signal.regime.bear THEN 3
    ELSE 4

\* C28: a position entered from flat is allotted 50% of the capital in a bull
\* regime, 30% in a bear regime, 40% in a range regime and 50% when
\* useRegimeParams is false, and entryPrice * positionQty is the allotted
\* capital less the entry fee (allotted * leverage * takerFee), to within
\* the last digit of the quantity
C28_RegimeSizedFeeAdjusted ==
    (result.fn = "generateSignals" /\ position # 0) =>
        LET allotted == (capital * allottedTenths) \div 10
            fee == (allotted * leverage * takerFee) \div 10000
        IN  /\ entryPrice * positionQty <= (allotted - fee) * 100
            /\ (allotted - fee) * 100 < entryPrice * (positionQty + 1)
            /\ fee > 0

\* a short was entered in a bear regime with regime sizing on: 30%
C28_Witness ==
    /\ result.fn = "generateSignals"
    /\ position = -1
    /\ call.useRegimeParams
    /\ result.signal.regime.bear
    /\ entryPrice * positionQty > 29 * capital
    /\ entryPrice * positionQty < 30 * capital

\* the highest equity of the run so far: the initial capital or a later
\* entry of equityCurve
peakEquity ==
    LET seen == {initialCapital} \cup { equityCurve[k] : k \in DOMAIN equityCurve }
    IN  CHOOSE p \in seen : \A q \in seen : q <= p

\* C29: once the capital stands more than 30% below the peak of the equity
\* curve, no bar of the run opens a position
C29_DrawdownBreaker ==
    [][(10 * capital < 7 * peakEquity) =>
           ~(position' # 0 /\ (position = 0 \/ entryBar' # entryBar))]_vars

\* C30: the stop set on entry is the one of the pre-profit branch:
\* entryPrice - initialStopATR * ATR * initial multiplier of the regime for a
\* long, entryPrice plus that distance for a short, and the distance is
\* positive, so the stop lies strictly on the losing side of the entry
C30_InitialStopOnLosingSide ==
    (result.fn = "generateSignals" /\ position # 0) =>
        LET initial == regimeMultipliers[regType(result.signal.regime)].initial
            stopDist == (initialStopATR * result.signal.atr * initial) \div 10000
        IN  /\ stopDist > 0
            /\ position = 1 => trailingStop = entryPrice - stopDist /\ trailingStop < entryPrice
            /\ position = -1 => trailingStop = entryPrice + stopDist /\ trailingStop > entryPrice

\* a long was entered and its stop stands 1.2 ATR below the entry price
C30_Witness ==
    /\ result.fn = "generateSignals"
    /\ position = 1
    /\ result.signal.atr > 0
    /\ 100 * (entryPrice - trailingStop) = initialStopATR * result.signal.atr

\* C31: when backtest has returned, the last entry of equityCurve is the
\* initial capital plus the pnl of every trade of the returned ledger
C31_LedgerMatchesEquityCurve ==
    (pc = "returned" /\ equityCurve # << >>) =>
        equityCurve[Len(equityCurve)]
            = initialCapital + SumSeq([k \in 1 .. Len(trades) |-> trades[k].pnl])

\* C32: forwardTest ends only through the shutdown handler: no step takes
\* the running process to an uncaught exception, so a firing of the status
\* timer completes whether a position is open or not
C32_StatusTimerNeverRaises ==
    [][(FORWARD_TEST /\ exited = "running") => exited' # "uncaughtException"]_vars

\* a step of backtest that manages an open position on a bar of positive ATR
ManageStep == ~FORWARD_TEST /\ position # 0 /\ i' = i + 1 /\ curAtr' > 0

\* C33: with a positive ATR the stop computed on a bar lies strictly below
\* the bar's close for a long and strictly above it for a short, so every
\* stop exit is a hit of the stop carried over from an earlier bar, and no
\* stop exit closes a position on its entry bar
C33_StopHitByCarriedStop ==
    [][ /\ ManageStep =>
              LET newTrail == calcDynamicTrail(row'.close, entryPrice, curAtr', position,
                                               regimeNamed(regimeLog'[Len(regimeLog')]))
              IN  IF position = 1 THEN newTrail < row'.close ELSE newTrail > row'.close
        /\ (ManageStep /\ StopExitStep) =>
              /\ stopHit(position, row'.close, trailingStop)
              /\ LastTrade(trades').barsHeld >= 1 ]_vars

\* a long was stopped out below its entry on a bar after its entry bar, and
\* no new position was opened on that bar
C33_Witness ==
    /\ ~FORWARD_TEST
    /\ position = 0
    /\ Len(trades) >= 1
    /\ LastTrade(trades).exitReason = "initial_stop"
    /\ LastTrade(trades).direction = "long"
    /\ LastTrade(trades).barsHeld >= 1
    /\ LastTrade(trades).exitTime = row.timestamp
    /\ row.close <= trailingStop

\* C34: no trade of backtest loses more than its margin: the return of
\* every trade, pnl / (entryPrice * positionQty), is at least -1
C34_LossWithinMargin ==
    ~FORWARD_TEST =>
        \A k \in DOMAIN trades : GE(trades[k].return, [num |-> -1, den |-> 1])

\* C35: every trade of backtest has barsHeld = index of the exit bar minus
\* index of the entry bar, and the funding of a trade that carries one is
\* charged on the hours of that bar count, whatever the exit reason
C35_BarsHeldIsExitMinusEntry ==
    ~FORWARD_TEST =>
        /\ \A k \in DOMAIN trades :
               trades[k].barsHeld = trades[k].exitTime - trades[k].entryTime
        /\ (pc = "returned" /\ trades # << >>
                /\ LastTrade(trades).exitReason = "end_of_data")
               => LET t == LastTrade(trades)
                  IN  t.fundingCost = calcFundingCost(notional(t.exitPrice, positionQty),
                                                      t.exitTime - t.entryTime)

\* C36: regimeLog and equityCurve of backtest are index-aligned: at every
\* point of the run they have the same length, so that each bar appends its
\* regime and its capital at the same index
C36_RegimeLogAlignedWithEquityCurve ==
    ~FORWARD_TEST => Len(regimeLog) = Len(equityCurve)

\* C37: a step that opens a position from flat leaves capital and the trade
\* ledger as they were, and capital changes only on a step that records a
\* closed trade, by the pnl of that trade
C37_EntryLeavesCapitalAndLedger ==
    [][ /\ (position = 0 /\ position' # 0) => (capital' = capital /\ trades' = trades)
        /\ capital' # capital =>
              /\ Len(trades') = Len(trades) + 1
              /\ capital' = capital + LastTrade(trades').pnl ]_vars

\* forwardTest holds its first position: the capital is the initial capital,
\* the ledger is empty and the quantity is below 40% of the capital at the
\* entry price
C37_Witness ==
    /\ FORWARD_TEST
    /\ position # 0
    /\ trades = << >>
    /\ capital = initialCapital
    /\ positionQty > 0
    /\ entryPrice * positionQty < 40 * capital

\* C38: a bar whose ATR is 0 gives no signal, whatever the strategy rule
\* yields, so every position is opened on a bar of strictly positive ATR and
\* its initial trailing stop differs from its entry price
C38_EntryNeedsPositiveATR ==
    result.fn = "generateSignals" =>
        /\ (~isWarmup(call.idx) /\ result.signal.atr = 0)
               => (~result.signal.long /\ ~result.signal.short)
        /\ position # 0 => (result.signal.atr > 0 /\ trailingStop # entryPrice)

\* a short was entered on a bar of positive ATR, its stop above the entry
C38_Witness ==
    /\ result.fn = "generateSignals"
    /\ position = -1
    /\ result.signal.short
    /\ result.signal.atr > 0
    /\ trailingStop > entryPrice
=============================================================================
